---------------------------- MODULE Spec2Model ----------------------------
(***************************************************************************)
(* Upload client of the issue tracker: the strict upload (uploadFile), the *)
(* health probe (checkHealth), the fallback orchestration                  *)
(* (uploadFileWithFallback) and the mock upload generator.                 *)
(*                                                                         *)
(* The repository carries three copies of the upload client:               *)
(*   "googleDrive"  src/src/lib/googleDriveUpload.ts          (lines 1-153)*)
(*   "cloudinary"   src/src/lib/mockData.ts               (lines 317-479)  *)
(*   "legacy"       src/src/pages/Index.tsx               (lines 218-327)  *)
(* The variable `variant` says which copy is running.                      *)
(*                                                                         *)
(* Text on which the code performs substring tests (host names, endpoint   *)
(* URLs, error messages) is a sequence of one-character strings, so that   *)
(* String.prototype.includes is computed, not assumed.                     *)
(***************************************************************************)
EXTENDS Integers, Sequences, FiniteSets, TLC

(***************************************************************************)
(* Bounds of the model                                                     *)
(***************************************************************************)
\* Date.now() ranges over 0..MaxClock
MaxClock == 1
\* Math.random() draws of generateId range over 1..MaxRand
MaxRand == 2

(***************************************************************************)
(* Text constants                                                          *)
(***************************************************************************)
\* "http://localhost:3001"
DefaultApiBaseUrl ==
  <<"h","t","t","p",":","/","/","l","o","c","a","l","h","o","s","t",":","3",
    "0","0","1">>

\* "http://127.0.0.1:3001"
UrlLoopbackIp ==
  <<"h","t","t","p",":","/","/","1","2","7",".","0",".","0",".","1",":","3",
    "0","0","1">>

\* "https://api.example.com"
UrlRemote ==
  <<"h","t","t","p","s",":","/","/","a","p","i",".","e","x","a","m","p","l",
    "e",".","c","o","m">>

\* "localhost"
HostLocalhost ==
  <<"l","o","c","a","l","h","o","s","t">>

\* "127.0.0.1"
HostLoopbackIp ==
  <<"1","2","7",".","0",".","0",".","1">>

\* "0.0.0.0"
HostAnyAddr ==
  <<"0",".","0",".","0",".","0">>

\* "app.example.com"
HostRemote ==
  <<"a","p","p",".","e","x","a","m","p","l","e",".","c","o","m">>

\* "localhost"
KwLocalhost ==
  <<"l","o","c","a","l","h","o","s","t">>

\* "127.0.0.1"
KwLoopbackIp ==
  <<"1","2","7",".","0",".","0",".","1">>

\* "0.0.0.0"
KwAnyAddr ==
  <<"0",".","0",".","0",".","0">>

\* "Failed to fetch"
KwFailedToFetch ==
  <<"F","a","i","l","e","d"," ","t","o"," ","f","e","t","c","h">>

\* "network"
KwNetwork ==
  <<"n","e","t","w","o","r","k">>

\* "NetworkError"
KwNetworkError ==
  <<"N","e","t","w","o","r","k","E","r","r","o","r">>

\* "fetch"
KwFetch ==
  <<"f","e","t","c","h">>

\* "quota"
KwQuota ==
  <<"q","u","o","t","a">>

\* "limit"
KwLimit ==
  <<"l","i","m","i","t">>

\* "configuration"
KwConfiguration ==
  <<"c","o","n","f","i","g","u","r","a","t","i","o","n">>

\* "Upload failed with status "
MsgStatusPrefix ==
  <<"U","p","l","o","a","d"," ","f","a","i","l","e","d"," ","w","i","t","h",
    " ","s","t","a","t","u","s"," ">>

\* "Upload failed - no media link received"
MsgNoMediaLink ==
  <<"U","p","l","o","a","d"," ","f","a","i","l","e","d"," ","-"," ","n","o",
    " ","m","e","d","i","a"," ","l","i","n","k"," ","r","e","c","e","i","v",
    "e","d">>

\* "Upload timeout. Please try with a smaller file."
MsgTimeout ==
  <<"U","p","l","o","a","d"," ","t","i","m","e","o","u","t","."," ","P","l",
    "e","a","s","e"," ","t","r","y"," ","w","i","t","h"," ","a"," ","s","m",
    "a","l","l","e","r"," ","f","i","l","e",".">>

\* "Unable to connect to upload service."
MsgUnreachable ==
  <<"U","n","a","b","l","e"," ","t","o"," ","c","o","n","n","e","c","t"," ",
    "t","o"," ","u","p","l","o","a","d"," ","s","e","r","v","i","c","e",".">>

\* "Network error. Please check your connection and try again."
MsgNetworkLegacy ==
  <<"N","e","t","w","o","r","k"," ","e","r","r","o","r","."," ","P","l","e",
    "a","s","e"," ","c","h","e","c","k"," ","y","o","u","r"," ","c","o","n",
    "n","e","c","t","i","o","n"," ","a","n","d"," ","t","r","y"," ","a","g",
    "a","i","n",".">>

\* "Upload quota exceeded. Please try again later."
MsgQuota ==
  <<"U","p","l","o","a","d"," ","q","u","o","t","a"," ","e","x","c","e","e",
    "d","e","d","."," ","P","l","e","a","s","e"," ","t","r","y"," ","a","g",
    "a","i","n"," ","l","a","t","e","r",".">>

\* "Upload service temporarily unavailable. Please try again later."
MsgUnavailable ==
  <<"U","p","l","o","a","d"," ","s","e","r","v","i","c","e"," ","t","e","m",
    "p","o","r","a","r","i","l","y"," ","u","n","a","v","a","i","l","a","b",
    "l","e","."," ","P","l","e","a","s","e"," ","t","r","y"," ","a","g","a",
    "i","n"," ","l","a","t","e","r",".">>

\* "Upload failed. Please try again."
MsgGeneric ==
  <<"U","p","l","o","a","d"," ","f","a","i","l","e","d","."," ","P","l","e",
    "a","s","e"," ","t","r","y"," ","a","g","a","i","n",".">>

\* "Cloudinary not configured. Please check your credentials."
SrvNotConfigured ==
  <<"C","l","o","u","d","i","n","a","r","y"," ","n","o","t"," ","c","o","n",
    "f","i","g","u","r","e","d","."," ","P","l","e","a","s","e"," ","c","h",
    "e","c","k"," ","y","o","u","r"," ","c","r","e","d","e","n","t","i","a",
    "l","s",".">>

\* "Cloudinary configuration error. Please check server setup."
SrvConfigError ==
  <<"C","l","o","u","d","i","n","a","r","y"," ","c","o","n","f","i","g","u",
    "r","a","t","i","o","n"," ","e","r","r","o","r","."," ","P","l","e","a",
    "s","e"," ","c","h","e","c","k"," ","s","e","r","v","e","r"," ","s","e",
    "t","u","p",".">>

\* "No file uploaded"
SrvNoFile ==
  <<"N","o"," ","f","i","l","e"," ","u","p","l","o","a","d","e","d">>

\* "network storage limit reached"
ExtNetworkLimit ==
  <<"n","e","t","w","o","r","k"," ","s","t","o","r","a","g","e"," ","l","i",
    "m","i","t"," ","r","e","a","c","h","e","d">>

\* "rate limit in configuration"
ExtLimitConfig ==
  <<"r","a","t","e"," ","l","i","m","i","t"," ","i","n"," ","c","o","n","f",
    "i","g","u","r","a","t","i","o","n">>

\* "Failed to fetch"
BrowserFailedToFetch ==
  <<"F","a","i","l","e","d"," ","t","o"," ","f","e","t","c","h">>

\* "NetworkError when attempting to fetch resource."
BrowserNetworkError ==
  <<"N","e","t","w","o","r","k","E","r","r","o","r"," ","w","h","e","n"," ",
    "a","t","t","e","m","p","t","i","n","g"," ","t","o"," ","f","e","t","c",
    "h"," ","r","e","s","o","u","r","c","e",".">>

\* "signal is aborted without reason"
BrowserAborted ==
  <<"s","i","g","n","a","l"," ","i","s"," ","a","b","o","r","t","e","d"," ",
    "w","i","t","h","o","u","t"," ","r","e","a","s","o","n">>

\* "https://x/y"
LinkXY ==
  <<"h","t","t","p","s",":","/","/","x","/","y">>

\* "https://drive.google.com/file/d/"
DriveUrlPrefix ==
  <<"h","t","t","p","s",":","/","/","d","r","i","v","e",".","g","o","o","g",
    "l","e",".","c","o","m","/","f","i","l","e","/","d","/">>

\* "/view?usp=sharing"
DriveUrlSuffix ==
  <<"/","v","i","e","w","?","u","s","p","=","s","h","a","r","i","n","g">>

\* "Unexpected token < in JSON at position 0"
BrowserJsonSyntax ==
  <<"U","n","e","x","p","e","c","t","e","d"," ","t","o","k","e","n"," ","<",
    " ","i","n"," ","J","S","O","N"," ","a","t"," ","p","o","s","i","t","i",
    "o","n"," ","0">>

(***************************************************************************)
(* Text helpers                                                            *)
(***************************************************************************)
\* String.prototype.includes
Includes(s, t) ==
  \E i \in 1..(Len(s) - Len(t) + 1) : SubSeq(s, i, i + Len(t) - 1) = t

Digit(d) ==
  CASE d = 0 -> "0" [] d = 1 -> "1" [] d = 2 -> "2" [] d = 3 -> "3"
    [] d = 4 -> "4" [] d = 5 -> "5" [] d = 6 -> "6" [] d = 7 -> "7"
    [] d = 8 -> "8" [] d = 9 -> "9"

RECURSIVE NumToText(_)
\* template-literal conversion of a non-negative integer
NumToText(n) ==
  IF n < 10 THEN <<Digit(n)>> ELSE NumToText(n \div 10) \o <<Digit(n % 10)>>
(***************************************************************************)
(* Configuration and inputs                                                *)
(***************************************************************************)
Variants == {"googleDrive", "cloudinary", "legacy"}

\* import.meta.env.VITE_API_BASE_URL; <<>> when the setting is unset
ApiEnvValues == {<<>>, UrlLoopbackIp, UrlRemote}

\* window.location.hostname
Hostnames == {HostLocalhost, HostLoopbackIp, HostRemote}

\* the File handed to the upload functions: an accepted image, a zero-byte
\* file and a file of a type the backend's filter does not accept
Files ==
  { [name |-> "a.png",     type |-> "image/png",                size |-> 10],
    [name |-> "empty.txt", type |-> "text/plain",               size |-> 0],
    [name |-> "tool.exe",  type |-> "application/x-msdownload", size |-> 7] }

NoFile == [name |-> "", type |-> "", size |-> 0]

\* setTimeout(() => controller.abort(), ...) of the strict upload
UploadTimeoutMs == 30000
\* ... of the probe inside uploadMediaFileWithFallback (googleDrive copy)
ProbeTimeoutMs == 2000
\* ... of checkServerHealth, googleDrive copy
HealthTimeoutMs == 5000
\* ... of checkServerHealth, cloudinary copy
HealthTimeoutCloudinaryMs == 3000

(***************************************************************************)
(* JSON bodies.  `present` is the set of keys the object has; a key that   *)
(* is not present reads as undefined.                                      *)
(***************************************************************************)
\* the object {} that response.json().catch(() => ({})) yields
EmptyBody ==
  [present |-> {}, success |-> FALSE, mediaLink |-> <<>>, fileName |-> "",
   fileSize |-> 0, mimeType |-> "", error |-> <<>>]

\* a complete success body; its name, size and type differ from those of
\* every input file, so that the source of a result's fields is visible
FullBody ==
  [present |-> {"success", "mediaLink", "fileName", "fileSize", "mimeType"},
   success |-> TRUE, mediaLink |-> LinkXY, fileName |-> "r.png",
   fileSize |-> 12, mimeType |-> "image/x-png", error |-> <<>>]

SuccessBodies ==
  { FullBody,
    \* only the two fields the client insists on
    [FullBody EXCEPT !.present = {"success", "mediaLink"}],
    \* optional fields present but empty / zero
    [FullBody EXCEPT !.fileName = "", !.fileSize = 0, !.mimeType = ""],
    \* media link missing, present but empty
    [FullBody EXCEPT !.present = @ \ {"mediaLink"}],
    [FullBody EXCEPT !.mediaLink = <<>>],
    \* success flag false, missing
    [FullBody EXCEPT !.success = FALSE],
    [FullBody EXCEPT !.present = @ \ {"success"}],
    \* { success: false, error: ... } answered with HTTP 200
    [EmptyBody EXCEPT !.present = {"success", "error"}, !.error = MsgQuota] }

ErrorBody(msg) ==
  [EmptyBody EXCEPT !.present = {"success", "error"}, !.error = msg]

\* POST /upload-media failure responses of the backend (status, error text),
\* and of other servers behind the configured endpoint
ErrorResponses ==
  { <<400, SrvNoFile>>, <<429, MsgQuota>>, <<500, SrvConfigError>>,
    <<500, SrvNotConfigured>>, <<500, MsgGeneric>>,
    <<500, ExtNetworkLimit>>, <<500, ExtLimitConfig>> }

\* data.X of a parsed body, undefined read as the falsy value of the type
SuccessOf(d)   == "success" \in d.present /\ d.success
MediaLinkOf(d) == IF "mediaLink" \in d.present THEN d.mediaLink ELSE <<>>
FileNameOf(d)  == IF "fileName" \in d.present THEN d.fileName ELSE ""
FileSizeOf(d)  == IF "fileSize" \in d.present THEN d.fileSize ELSE 0
MimeTypeOf(d)  == IF "mimeType" \in d.present THEN d.mimeType ELSE ""
ErrorOf(d)     == IF "error" \in d.present THEN d.error ELSE <<>>

(***************************************************************************)
(* What the server behind the endpoint does with one request               *)
(*   mode     "respond" (headers arrive), "neterr" (fetch rejects with a   *)
(*            TypeError), "hang" (nothing ever arrives)                    *)
(*   bodyMode "json", "invalid" (response.json() rejects), "stall" (the    *)
(*            body never completes)                                        *)
(***************************************************************************)
NoServer ==
  [mode |-> "none", status |-> 0, bodyMode |-> "none", data |-> EmptyBody,
   netmsg |-> <<>>]

HealthServers ==
  { [NoServer EXCEPT !.mode = "respond", !.status = st] : st \in {200, 204, 404, 500} }
  \cup { [NoServer EXCEPT !.mode = "neterr", !.netmsg = BrowserFailedToFetch],
         [NoServer EXCEPT !.mode = "hang"] }

PostServers ==
  { [NoServer EXCEPT !.mode = "respond", !.status = 200, !.bodyMode = "json",
                     !.data = b] : b \in SuccessBodies }
  \cup { [NoServer EXCEPT !.mode = "respond", !.status = e[1],
                          !.bodyMode = "json", !.data = ErrorBody(e[2])]
           : e \in ErrorResponses }
  \cup { [NoServer EXCEPT !.mode = "respond", !.status = 500, !.bodyMode = "json"],
         [NoServer EXCEPT !.mode = "respond", !.status = 502, !.bodyMode = "invalid"],
         [NoServer EXCEPT !.mode = "respond", !.status = 200, !.bodyMode = "invalid"],
         [NoServer EXCEPT !.mode = "respond", !.status = 200, !.bodyMode = "stall",
                          !.data = FullBody],
         [NoServer EXCEPT !.mode = "respond", !.status = 500, !.bodyMode = "stall"],
         [NoServer EXCEPT !.mode = "neterr", !.netmsg = BrowserFailedToFetch],
         [NoServer EXCEPT !.mode = "neterr", !.netmsg = BrowserNetworkError],
         [NoServer EXCEPT !.mode = "hang"] }

(***************************************************************************)
(* Values                                                                  *)
(***************************************************************************)
\* generateId(): `${Date.now()}-${Math.random()...}`
generateId(now, r) == NumToText(now) \o <<"-">> \o NumToText(r)

\* a Date object holding the time ms, and the text JSON.stringify makes of
\* it (Date.prototype.toISOString)
DateValue(ms) == [date |-> ms]
IsoText(ms) == [iso |-> ms]
IsDate(x) == DOMAIN x = {"date"}

NoMedia ==
  [id |-> <<>>, name |-> "", url |-> <<>>, type |-> "", size |-> 0,
   uploadedAt |-> DateValue(0)]

NoError == [cause |-> "none", name |-> "", message |-> <<>>]

NoResult == [kind |-> "none", media |-> NoMedia, error |-> <<>>, ok |-> FALSE]

(***************************************************************************)
(* State                                                                   *)
(***************************************************************************)
VARIABLES
  variant,    \* which copy of the upload client runs
  hostname,   \* window.location.hostname
  apiEnv,     \* VITE_API_BASE_URL
  clock,      \* Date.now()
  op,         \* the exported function that was called: "fallback",
              \* "upload", "health"; "none" when no call is in progress
  pc,         \* where the call is suspended: "idle", "probe" (await fetch
              \* of /health), "post" (await fetch of /upload-media),
              \* "errBody", "okBody" (await response.json()), "mock" (await
              \* the mock generator's delay), "done"
  file,       \* the call's argument
  timer,      \* delay of the armed abort timer, 0 when none is armed
  health,     \* what the server does with the GET /health of this call
  srv,        \* what the server does with the POST /upload-media
  probed,     \* outcome of this call's health probe: "none", "true", "false"
  caught,     \* the error caught by the strict upload's catch block
  thrown,     \* the message of the error the strict upload threw
  result,     \* what the call returned or threw
  gets,       \* GET /health requests issued by the call
  posts,      \* POST /upload-media requests issued by the call
  mocks       \* invocations of the mock generator by the call

\* The page component (Index) and the browser's local storage
VARIABLES
  page,          \* which copy of the page component runs: "plain"
                 \* (src/src/pages/Index.tsx) or "dashboard"
                 \* (src/src/components/IssueSubmissionForm.tsx, 557-1017)
  seed,          \* selects the sequence of Math.random() results
  localStorage,  \* key -> stored item
  mounted,       \* the initialisation effect has run
  issues,        \* useState<Issue[]>
  chatMessages,  \* useState<Record<string, ChatMessage[]>>
  currentView,   \* useState<View>
  selectedIssue, \* id of the selected issue, <<>> when none
  replyTimers,   \* pending auto-reply timers of handleSendMessage
  submitting,    \* onFormSubmit calls suspended in their simulated delay,
                 \* each with the handler (and its state) it captured
  ids,           \* number of generateId() calls made by the page
  ops,           \* number of user operations and reloads so far
  writeFailed,   \* some localStorage.setItem has thrown
  last           \* the handler that ran last, with its arguments

\* The backend (src/unnamed/part_001, src/server/index.js)
VARIABLES
  isCloudinaryInitialized, \* the outcome of initializeCloudinary()
  received,      \* number of requests received so far
  awaiting,      \* POST /upload-media requests whose handler awaits the
                 \* provider
  uploads,       \* the temporary files in uploads/, named by their request
  sent           \* the responses sent, in order

\* The issue form (IssueSubmissionForm)
VARIABLES
  formOpen,      \* an instance of the form is mounted
  formNo,        \* number of instances mounted so far
  mediaFiles,    \* useState<MediaFile[]> of the mounted instance
  chosen,        \* the files chosen for upload in that instance, each with
                 \* the MediaFile its upload has returned
  picked,        \* number of files chosen so far, in all instances
  uploading,     \* the handleFileUpload call suspended in its await
  addTimers,     \* pending setTimeout(..., 500) callbacks of handleFileUpload
  pressed,       \* onFormSubmit calls suspended in their delay
  onSubmitCalls, \* the issues handed to onSubmit, in order
  alerts         \* number of alert() calls made

uploadVars ==
  <<variant, hostname, apiEnv, op, pc, file, timer, health, srv,
    probed, caught, thrown, result, gets, posts, mocks>>

pageVars ==
  <<page, seed, localStorage, mounted, issues, chatMessages, currentView,
    selectedIssue, replyTimers, submitting, ids, ops, writeFailed, last>>

serverVars == <<isCloudinaryInitialized, received, awaiting, uploads, sent>>

formVars ==
  <<formOpen, formNo, mediaFiles, chosen, picked, uploading, addTimers,
    pressed, onSubmitCalls, alerts>>

vars ==
  <<variant, hostname, apiEnv, clock, op, pc, file, timer, health, srv,
    probed, caught, thrown, result, gets, posts, mocks,
    page, seed, localStorage, mounted, issues, chatMessages, currentView,
    selectedIssue, replyTimers, submitting, ids, ops, writeFailed, last,
    isCloudinaryInitialized, received, awaiting, uploads, sent,
    formOpen, formNo, mediaFiles, chosen, picked, uploading, addTimers,
    pressed, onSubmitCalls, alerts>>

config == <<variant, hostname, apiEnv>>

\* const API_BASE_URL = import.meta.env.VITE_API_BASE_URL || "http://localhost:3001"
API_BASE_URL == IF apiEnv # <<>> THEN apiEnv ELSE DefaultApiBaseUrl

(***************************************************************************)
(* The local store and the page component before its first render          *)
(***************************************************************************)
\* STORAGE_KEYS
ISSUES == "fusion-issues"
CHAT_MESSAGES == "fusion-chat-messages"
\* a key the application never writes
OtherKey == "theme"
StorageKeys == {ISSUES, CHAT_MESSAGES, OtherKey}

\* localStorage.getItem(key) === null
NoItem == [kind |-> "absent"]
\* an item holding the text of the JSON value v
\* (shape is what JSON.parse makes of the text: "array" for an array of
\* objects, "object" for an object of arrays of objects, "null", and
\* "array of null", "object of null" for an array or object of nulls)
JsonItem(shape, v) == [kind |-> "json", shape |-> shape, value |-> v]
\* items whose text is empty, or is no JSON text at all
EmptyItem == [kind |-> "empty"]
GarbageItem == [kind |-> "garbage"]

EmptyStorage == [k \in StorageKeys |-> NoItem]

Pages == {"plain", "dashboard"}
\* useState<View>(...)
InitialView(p) == IF p = "dashboard" THEN "dashboard" ELSE "issues"
\* useState<Issue | null>(null)
NoIssue == <<>>
NoHandler == [name |-> "none"]

\* The component state of a page that has not run its effect yet
Unmounted(p) ==
  /\ mounted = FALSE
  /\ issues = <<>>
  /\ chatMessages = <<>>
  /\ currentView = InitialView(p)
  /\ selectedIssue = NoIssue
  /\ replyTimers = {}
  /\ submitting = {}

\* the backend before any request, with the given outcome of
\* initializeCloudinary()
Listening(initialized) ==
  /\ isCloudinaryInitialized = initialized
  /\ received = 0
  /\ awaiting = {}
  /\ uploads = {}
  /\ sent = <<>>

\* no handleFileUpload call is in progress
NoUpload == [form |-> 0, files |-> <<>>]

\* no instance of the form was mounted yet
NoForm ==
  /\ formOpen = FALSE
  /\ formNo = 0
  /\ mediaFiles = <<>>
  /\ chosen = {}
  /\ picked = 0
  /\ uploading = NoUpload
  /\ addTimers = {}
  /\ pressed = {}
  /\ onSubmitCalls = <<>>
  /\ alerts = 0

Init ==
  /\ Listening(FALSE)
  /\ NoForm
  /\ page = "plain"
  /\ seed = 0
  /\ localStorage = EmptyStorage
  /\ Unmounted("plain")
  /\ ids = 0
  /\ ops = 0
  /\ writeFailed = 0
  /\ last = NoHandler
  /\ variant \in Variants
  /\ hostname \in Hostnames
  /\ apiEnv \in ApiEnvValues
  /\ clock = 0
  /\ op = "none"
  /\ pc = "idle"
  /\ file = NoFile
  /\ timer = 0
  /\ health = NoServer
  /\ srv = NoServer
  /\ probed = "none"
  /\ caught = NoError
  /\ thrown = <<>>
  /\ result = NoResult
  /\ gets = 0
  /\ posts = 0
  /\ mocks = 0

(***************************************************************************)
(* Pure parts of the upload client                                         *)
(***************************************************************************)
\* Response.ok taken for "anything but a server error"
ResponseOk_Under500(status) == status >= 200 /\ status <= 499

\* Response.ok
ResponseOk(status) == status >= 200 /\ status <= 299

\* isHostedEnvironment of the cloudinary copy
IsHostedEnvironment ==
  /\ ~Includes(hostname, KwLocalhost)
  /\ ~Includes(hostname, KwLoopbackIp)
  /\ ~Includes(hostname, KwAnyAddr)

\* the hosted-environment shortcut left out
ShouldSkipRealAPI_Never == FALSE

\* shouldSkipRealAPI of the cloudinary copy (also the early return of its
\* checkServerHealth)
ShouldSkipRealAPI == IsHostedEnvironment /\ Includes(API_BASE_URL, KwLocalhost)

\* isDemoMode of the googleDrive copy
IsDemoMode == ~Includes(API_BASE_URL, KwLocalhost) \/ hostname # HostLocalhost

\* the probe's answer ignored
ShouldTryRealAPI_Always(ok) == TRUE

\* shouldTryRealAPI = response.ok (false in the catch); isServerHealthy
ShouldTryRealAPI(ok) == ok

\* the media link not tested
UploadSucceeded_IgnoresLink(d) == SuccessOf(d)

\* the test `!data.success || !data.mediaLink` negated
UploadSucceeded(d) == SuccessOf(d) /\ MediaLinkOf(d) # <<>>

\* the response's fileName, fileSize and mimeType not used
UploadedMediaFile_FromFile(d, f, id, now) ==
  [id         |-> id,
   name       |-> f.name,
   url        |-> MediaLinkOf(d),
   type       |-> f.type,
   size       |-> f.size,
   uploadedAt |-> DateValue(now)]

\* the object the strict upload returns
UploadedMediaFile(d, f, id, now) ==
  [id         |-> id,
   name       |-> IF FileNameOf(d) # "" THEN FileNameOf(d) ELSE f.name,
   url        |-> MediaLinkOf(d),
   type       |-> IF MimeTypeOf(d) # "" THEN MimeTypeOf(d) ELSE f.type,
   size       |-> IF FileSizeOf(d) # 0 THEN FileSizeOf(d) ELSE f.size,
   uploadedAt |-> DateValue(now)]

\* the mock generator losing the MIME type
uploadMediaFile_DropsType(f, linkId, id, now) ==
  [id         |-> id,
   name       |-> f.name,
   url        |-> DriveUrlPrefix \o linkId \o DriveUrlSuffix,
   type       |-> "",
   size       |-> f.size,
   uploadedAt |-> DateValue(now)]

\* the object the mock generator returns
uploadMediaFile(f, linkId, id, now) ==
  [id         |-> id,
   name       |-> f.name,
   url        |-> DriveUrlPrefix \o linkId \o DriveUrlSuffix,
   type       |-> f.type,
   size       |-> f.size,
   uploadedAt |-> DateValue(now)]

\* errorData.error || `Upload failed with status ${response.status}`
HttpErrorMessage(d, status) ==
  IF ErrorOf(d) # <<>> THEN ErrorOf(d) ELSE MsgStatusPrefix \o NumToText(status)

\* data.error || "Upload failed - no media link received"
BodyErrorMessage(d) == IF ErrorOf(d) # <<>> THEN ErrorOf(d) ELSE MsgNoMediaLink

\* the configuration test placed before the quota test
NormalizeError_ConfigFirst(e) ==
  IF variant # "legacy" /\ e.name = "AbortError"
  THEN MsgTimeout
  ELSE IF \/ Includes(e.message, KwNetwork)
          \/ (variant # "legacy" /\ Includes(e.message, KwFailedToFetch))
          \/ (variant # "legacy" /\ Includes(e.message, KwNetworkError))
          \/ (variant = "legacy" /\ Includes(e.message, KwFetch))
  THEN IF variant = "legacy" THEN MsgNetworkLegacy ELSE MsgUnreachable
  ELSE IF Includes(e.message, KwConfiguration)
  THEN MsgUnavailable
  ELSE IF Includes(e.message, KwQuota) \/ Includes(e.message, KwLimit)
  THEN MsgQuota
  ELSE e.message

\* the catch block of the strict upload: the message of the error it throws
NormalizeError(e) ==
  IF variant = "legacy"
  THEN IF Includes(e.message, KwNetwork) \/ Includes(e.message, KwFetch)
       THEN MsgNetworkLegacy
       ELSE IF Includes(e.message, KwQuota) \/ Includes(e.message, KwLimit)
       THEN MsgQuota
       ELSE IF Includes(e.message, KwConfiguration)
       THEN MsgUnavailable
       ELSE e.message
  ELSE IF e.name = "AbortError"
       THEN MsgTimeout
       ELSE IF \/ Includes(e.message, KwFailedToFetch)
               \/ Includes(e.message, KwNetwork)
               \/ Includes(e.message, KwNetworkError)
       THEN MsgUnreachable
       ELSE IF Includes(e.message, KwQuota) \/ Includes(e.message, KwLimit)
       THEN MsgQuota
       ELSE IF Includes(e.message, KwConfiguration)
       THEN MsgUnavailable
       ELSE e.message

\* delay of the abort timer armed by each request, 0 when none is armed
UploadTimer == IF variant = "legacy" THEN 0 ELSE UploadTimeoutMs

HealthTimer ==
  CASE variant = "googleDrive" -> HealthTimeoutMs
    [] variant = "cloudinary"  -> HealthTimeoutCloudinaryMs
    [] variant = "legacy"      -> 0

(***************************************************************************)
(* Steps shared by the three exported functions.  Each fixes the next      *)
(* value of pc, timer, srv, probed, result, posts and mocks.               *)
(***************************************************************************)
\* fetch(`${API_BASE_URL}/upload-media`, {method: "POST", ...}) with its
\* abort timer; p is the outcome of the probe that preceded it
StartPost(p) ==
  /\ pc' = "post"
  /\ posts' = posts + 1
  /\ timer' = UploadTimer
  /\ srv' \in PostServers
  /\ probed' = p
  /\ UNCHANGED <<mocks, result>>

\* uploadMediaFile(file) up to its await of the simulated delay; t is the
\* abort timer the previous request left behind
StartMock(t, p) ==
  /\ pc' = "mock"
  /\ mocks' = mocks + 1
  /\ timer' = t
  /\ probed' = p
  /\ UNCHANGED <<posts, srv, result>>

\* the call settles with r
Finish(r, t) ==
  /\ pc' = "done"
  /\ result' = r
  /\ timer' = t
  /\ UNCHANGED <<srv, probed, posts, mocks>>

\* the fallback without its catch: the strict upload's error reaches the caller
FallbackCatch_Rethrow(t) ==
  Finish([NoResult EXCEPT !.kind = "error", !.error = thrown'], t)

\* the fallback's catch trying the real upload once more
FallbackCatch_Retry(t) == StartPost(probed)

\* catch (error) { console.warn(...) } around the strict upload in
\* uploadMediaFileWithFallback, followed by the mock upload
FallbackCatch(t) == StartMock(t, probed)

\* the strict upload returns m; the fallback's `return await` hands it on
StrictReturns(m) ==
  /\ Finish([NoResult EXCEPT !.kind = "media", !.media = m], timer)
  /\ UNCHANGED <<caught, thrown>>

\* the strict upload's try block raises e: its catch block rethrows the
\* normalised error, to the direct caller or to the fallback's catch
StrictThrows(e, t) ==
  /\ caught' = e
  /\ thrown' = NormalizeError(e)
  /\ IF op = "fallback"
     THEN FallbackCatch(t)
     ELSE Finish([NoResult EXCEPT !.kind = "error", !.error = NormalizeError(e)], t)

\* the health probe yields ok
ProbeReturns(ok, t) ==
  /\ UNCHANGED <<caught, thrown>>
  /\ IF op = "health"
     THEN Finish([NoResult EXCEPT !.kind = "bool", !.ok = ok], t)
     ELSE IF ShouldTryRealAPI(ok)
          THEN StartPost(IF ok THEN "true" ELSE "false")
          ELSE StartMock(t, IF ok THEN "true" ELSE "false")

\* fetch(`${API_BASE_URL}/health`, {method: "GET", ...}) with abort timer t
StartProbe(t) ==
  /\ pc' = "probe"
  /\ gets' = gets + 1
  /\ timer' = t
  /\ health' \in HealthServers
  /\ UNCHANGED <<srv, probed, result, posts, mocks, caught, thrown>>

Begin(o, f) ==
  /\ pc = "idle"
  /\ op' = o
  /\ file' = f
  /\ UNCHANGED <<config, clock, pageVars, serverVars, formVars>>

(***************************************************************************)
(* Calls, up to their first await                                          *)
(***************************************************************************)
\* uploadMediaFileWithFallback(file)
UploadMediaFileWithFallback ==
  \E f \in Files :
    /\ Begin("fallback", f)
    /\ CASE variant = "googleDrive" ->
              IF IsDemoMode
              THEN StartProbe(ProbeTimeoutMs)
              ELSE StartPost("none") /\ UNCHANGED <<health, gets, caught, thrown>>
         [] variant = "cloudinary" ->
              IF ShouldSkipRealAPI
              THEN StartMock(0, "none") /\ UNCHANGED <<health, gets, caught, thrown>>
              ELSE StartPost("none") /\ UNCHANGED <<health, gets, caught, thrown>>
         [] variant = "legacy" ->
              StartProbe(HealthTimer)

\* uploadMediaFileToGoogleDrive(file), in the cloudinary copy
\* uploadMediaFileToCloudinary(file), called directly
UploadMediaFileToGoogleDrive ==
  \E f \in Files :
    /\ Begin("upload", f)
    /\ StartPost("none")
    /\ UNCHANGED <<health, gets, caught, thrown>>

\* checkServerHealth() called directly
CheckServerHealth ==
  /\ Begin("health", NoFile)
  /\ IF variant = "cloudinary" /\ ShouldSkipRealAPI
     THEN /\ Finish([NoResult EXCEPT !.kind = "bool", !.ok = FALSE], 0)
          /\ UNCHANGED <<health, gets, caught, thrown>>
     ELSE StartProbe(HealthTimer)

(***************************************************************************)
(* Completions of the awaited operations                                   *)
(***************************************************************************)
step == <<config, clock, op, file, pageVars, serverVars, formVars>>

\* fetch of /health resolves: clearTimeout(timeoutId), response.ok
HealthResponds ==
  /\ pc = "probe"
  /\ health.mode = "respond"
  /\ ProbeReturns(ResponseOk(health.status), 0)
  /\ UNCHANGED <<step, health, gets>>

\* fetch of /health rejects with a TypeError: the catch yields false (the
\* timer is not cleared on this path)
HealthNetworkError ==
  /\ pc = "probe"
  /\ health.mode = "neterr"
  /\ ProbeReturns(FALSE, timer)
  /\ UNCHANGED <<step, health, gets>>

\* the abort timer fires while /health is awaited: fetch rejects with an
\* AbortError, the catch yields false
HealthTimeout ==
  /\ pc = "probe"
  /\ timer > 0
  /\ ProbeReturns(FALSE, 0)
  /\ UNCHANGED <<step, health, gets>>

\* fetch of /upload-media resolves with the response headers:
\* clearTimeout(timeoutId), then response.json() is awaited
PostResponds ==
  /\ pc = "post"
  /\ srv.mode = "respond"
  /\ pc' = IF ResponseOk(srv.status) THEN "okBody" ELSE "errBody"
  /\ timer' = 0
  /\ UNCHANGED <<step, health, gets, srv, probed, result, posts, mocks,
                 caught, thrown>>

\* fetch of /upload-media rejects with a TypeError
PostNetworkError ==
  /\ pc = "post"
  /\ srv.mode = "neterr"
  /\ StrictThrows([cause |-> "network", name |-> "TypeError",
                   message |-> srv.netmsg], timer)
  /\ UNCHANGED <<step, health, gets>>

\* the abort timer fires while the fetch of /upload-media is awaited
PostTimeout ==
  /\ pc = "post"
  /\ timer > 0
  /\ StrictThrows([cause |-> "abort", name |-> "AbortError",
                   message |-> BrowserAborted], 0)
  /\ UNCHANGED <<step, health, gets>>

\* !response.ok: response.json().catch(() => ({})) settles, the error built
\* from it is thrown
ErrBodyRead ==
  /\ pc = "errBody"
  /\ srv.bodyMode \in {"json", "invalid"}
  /\ LET errorData == IF srv.bodyMode = "json" THEN srv.data ELSE EmptyBody
     IN  StrictThrows([cause |-> "http", name |-> "Error",
                       message |-> HttpErrorMessage(errorData, srv.status)],
                      timer)
  /\ UNCHANGED <<step, health, gets>>

\* response.ok: response.json() settles
OkBodyRead ==
  /\ pc = "okBody"
  /\ \/ /\ srv.bodyMode = "invalid"
        /\ StrictThrows([cause |-> "parse", name |-> "SyntaxError",
                         message |-> BrowserJsonSyntax], timer)
     \/ /\ srv.bodyMode = "json"
        /\ ~UploadSucceeded(srv.data)
        /\ StrictThrows([cause |-> "body", name |-> "Error",
                         message |-> BodyErrorMessage(srv.data)], timer)
     \/ /\ srv.bodyMode = "json"
        /\ UploadSucceeded(srv.data)
        /\ \E r \in 1..MaxRand :
             StrictReturns(UploadedMediaFile(srv.data, file,
                                             generateId(clock, r), clock))
  /\ UNCHANGED <<step, health, gets>>

\* the mock generator's delay elapses and it returns its MediaFile
MockResolves ==
  /\ pc = "mock"
  /\ \E r1, r2 \in 1..MaxRand :
       Finish([NoResult EXCEPT
                 !.kind = "media",
                 !.media = uploadMediaFile(file, generateId(clock, r1),
                                           generateId(clock, r2), clock)],
              timer)
  /\ UNCHANGED <<step, health, gets, caught, thrown>>

\* the caller takes the outcome; the next call may begin
Return ==
  /\ pc = "done"
  /\ pc' = "idle"
  /\ op' = "none"
  /\ file' = NoFile
  /\ timer' = 0
  /\ health' = NoServer
  /\ srv' = NoServer
  /\ probed' = "none"
  /\ caught' = NoError
  /\ thrown' = <<>>
  /\ result' = NoResult
  /\ gets' = 0
  /\ posts' = 0
  /\ mocks' = 0
  /\ UNCHANGED <<config, clock, pageVars, serverVars, formVars>>

\* time passes
Tick ==
  /\ clock < MaxClock
  /\ clock' = clock + 1
  /\ UNCHANGED <<variant, hostname, apiEnv, op, pc, file, timer, health, srv,
                 probed, caught, thrown, result, gets, posts, mocks>>
  /\ UNCHANGED <<pageVars, serverVars, formVars>>

Next ==
  \/ UploadMediaFileWithFallback
  \/ UploadMediaFileToGoogleDrive
  \/ CheckServerHealth
  \/ HealthResponds
  \/ HealthNetworkError
  \/ HealthTimeout
  \/ PostResponds
  \/ PostNetworkError
  \/ PostTimeout
  \/ ErrBodyRead
  \/ OkBodyRead
  \/ MockResolves
  \/ Return
  \/ Tick

Spec == Init /\ [][Next]_vars

\* The browser's event loop runs every settled promise's continuation and
\* every expired timer's callback; whether a server answers is not assumed
\* (the actions that deliver an answer are enabled only for a server that
\* gives one).  Calls are started by the user and carry no fairness.
Fairness ==
  /\ WF_vars(HealthResponds)
  /\ WF_vars(HealthNetworkError)
  /\ WF_vars(HealthTimeout)
  /\ WF_vars(PostResponds)
  /\ WF_vars(PostNetworkError)
  /\ WF_vars(PostTimeout)
  /\ WF_vars(ErrBodyRead)
  /\ WF_vars(OkBodyRead)
  /\ WF_vars(MockResolves)

FairSpec == Spec /\ Fairness

(***************************************************************************)
(* Vocabulary of the properties                                            *)
(***************************************************************************)
IsPrefix(p, s) == Len(p) <= Len(s) /\ SubSeq(s, 1, Len(p)) = p
IsSuffix(p, s) == Len(p) <= Len(s) /\ SubSeq(s, Len(s) - Len(p) + 1, Len(s)) = p

\* a MediaFile: identifier, name, retrieval URL, type, size, upload time
IsMediaFile(m) ==
  /\ m.id # <<>>
  /\ m.url # <<>>
  /\ m.size \in Nat
  /\ IsDate(m.uploadedAt)
  /\ DOMAIN m = {"id", "name", "url", "type", "size", "uploadedAt"}

\* m is what the mock generator makes of file f
IsMockResult(m, f) ==
  /\ IsMediaFile(m)
  /\ IsPrefix(DriveUrlPrefix, m.url)
  /\ IsSuffix(DriveUrlSuffix, m.url)
  /\ Len(m.url) > Len(DriveUrlPrefix) + Len(DriveUrlSuffix)
  /\ m.name = f.name
  /\ m.type = f.type
  /\ m.size = f.size

Returned == pc = "done" /\ result.kind = "media"

\* the page is served from a loopback host
PageIsLoopback == hostname \in {HostLocalhost, HostLoopbackIp, HostAnyAddr}

\* the configured endpoint's host is a loopback address
EndpointIsLoopback == API_BASE_URL \in {DefaultApiBaseUrl, UrlLoopbackIp}

\* the categories of the errors the strict upload throws
CategoryOf(m) ==
  CASE m = MsgTimeout -> "Timeout"
    [] m \in {MsgUnreachable, MsgNetworkLegacy} -> "Unreachable"
    [] m = MsgQuota -> "QuotaExceeded"
    [] m = MsgUnavailable -> "ServiceUnavailable"
    [] OTHER -> "Unknown"

(***************************************************************************)
(* Properties                                                              *)
(***************************************************************************)

\* C1: uploadFileWithFallback never fails.  For every file, page host,
\* endpoint, probe outcome and upload outcome the call never holds an error
\* as its outcome, and when it settles its result is a MediaFile.
C1_FallbackNeverFails ==
  op = "fallback" =>
    /\ result.kind # "error"
    /\ pc = "done" => result.kind = "media" /\ IsMediaFile(result.media)

\* a zero-byte file, the real upload failed, and the call has settled
C1_Witness ==
  /\ op = "fallback" /\ pc = "done"
  /\ file.size = 0
  /\ caught.cause # "none"

\* C2 as stated: a probe that returned false leads to the mock result with
\* no POST, and a POST is issued only after a probe that returned true.
C2_PostOnlyAfterTrueProbe ==
  op = "fallback" =>
    /\ probed = "false" => posts = 0 /\ pc \in {"mock", "done"}
    /\ probed = "false" /\ pc = "done" => IsMockResult(result.media, file)
    /\ posts > 0 => probed = "true"

\* C2 amended: a probe of the call that returned false leads to the mock
\* result with no POST; a POST is issued only after a probe that returned
\* true, or in a call that makes no probe at all: the googleDrive copy when
\* the endpoint URL contains "localhost" and the page's hostname is
\* "localhost", and the cloudinary copy whenever it does not take its
\* hosted-environment shortcut.
C2_ProbeGatesUpload ==
  op = "fallback" =>
    /\ probed = "false" => posts = 0 /\ pc \in {"mock", "done"}
    /\ probed = "false" /\ pc = "done" => IsMockResult(result.media, file)
    /\ posts > 0 =>
         \/ probed = "true"
         \/ /\ probed = "none" /\ gets = 0
            /\ \/ /\ variant = "googleDrive"
                  /\ Includes(API_BASE_URL, KwLocalhost)
                  /\ hostname = HostLocalhost
               \/ /\ variant = "cloudinary"
                  /\ ~(Includes(API_BASE_URL, KwLocalhost) /\ ~PageIsLoopback)

\* the probe returned false and the call has settled
C2_Witness == op = "fallback" /\ pc = "done" /\ probed = "false" /\ gets = 1

\* C3: when the real upload is attempted by uploadFileWithFallback and
\* fails, in whatever category, the error is not propagated: the call goes
\* on to the mock generator and returns its MediaFile, whose name, type and
\* size are the input file's.
C3_UploadFailureFallsBack ==
  op = "fallback" /\ caught.cause # "none" =>
    /\ posts = 1 /\ mocks = 1
    /\ pc \in {"mock", "done"}
    /\ result.kind # "error"
    /\ pc = "done" => Returned /\ IsMockResult(result.media, file)

\* the upload failed with a quota response and the mock result is back
C3_Witness ==
  /\ op = "fallback" /\ pc = "done"
  /\ caught.cause = "http" /\ CategoryOf(thrown) = "QuotaExceeded"
  /\ file.type = "image/png"

\* the response of the POST was received and accepted by the strict upload
UploadAnswered ==
  /\ posts = 1 /\ caught.cause = "none" /\ pc = "done"
  /\ srv.mode = "respond" /\ srv.status \in 200..299 /\ srv.bodyMode = "json"
  /\ SuccessOf(srv.data) /\ MediaLinkOf(srv.data) # <<>>

\* C4 as stated: after a true health check and a success answer with
\* success = true and a media link, the result's url, name, size and type
\* are the response's mediaLink, fileName, fileSize and mimeType.
C4_ResultIsResponse ==
  op = "fallback" /\ probed = "true" /\ UploadAnswered =>
    /\ Returned
    /\ result.media.url = MediaLinkOf(srv.data)
    /\ result.media.name = FileNameOf(srv.data)
    /\ result.media.size = FileSizeOf(srv.data)
    /\ result.media.type = MimeTypeOf(srv.data)

\* C4 amended: in that case the result's url is the response's mediaLink
\* and the mock generator is not used; name, size and type are the
\* response's fileName, fileSize and mimeType where the body carries a
\* non-empty (non-zero) value, and the input file's name, size and type
\* where the field is missing, empty or zero.
C4_ResultIsResponseOrFile ==
  op = "fallback" /\ UploadAnswered =>
    /\ Returned /\ mocks = 0
    /\ result.media.url = srv.data.mediaLink
    /\ result.media.name =
         IF "fileName" \in srv.data.present /\ srv.data.fileName # ""
         THEN srv.data.fileName ELSE file.name
    /\ result.media.size =
         IF "fileSize" \in srv.data.present /\ srv.data.fileSize # 0
         THEN srv.data.fileSize ELSE file.size
    /\ result.media.type =
         IF "mimeType" \in srv.data.present /\ srv.data.mimeType # ""
         THEN srv.data.mimeType ELSE file.type

\* health check true, complete success body, result taken from the body
C4_Witness ==
  /\ op = "fallback" /\ probed = "true" /\ UploadAnswered
  /\ srv.data = FullBody
  /\ result.media.name = "r.png"

\* C5 as stated: with a loopback endpoint and a page that is not served
\* from a loopback host the call issues no request and returns the mock
\* result.
C5_LoopbackEndpointNeverContacted ==
  op = "fallback" /\ EndpointIsLoopback /\ ~PageIsLoopback =>
    /\ gets = 0 /\ posts = 0
    /\ pc = "done" => Returned /\ IsMockResult(result.media, file)

\* C5 amended: the shortcut exists in the cloudinary copy only and
\* recognises the endpoint by the text "localhost" in its URL: there, with
\* such an endpoint and a page whose hostname contains none of localhost,
\* 127.0.0.1, 0.0.0.0, the call issues no request and returns the mock
\* result.  With the same configuration the googleDrive and the legacy copy
\* issue one GET /health and POST only if it answered with HTTP success.
C5_HostedShortcut ==
  op = "fallback" /\ Includes(API_BASE_URL, KwLocalhost) /\ ~PageIsLoopback =>
    /\ variant = "cloudinary" =>
         /\ gets = 0 /\ posts = 0
         /\ pc \in {"mock", "done"}
         /\ pc = "done" => Returned /\ IsMockResult(result.media, file)
    /\ variant # "cloudinary" =>
         /\ gets = 1
         /\ posts > 0 => probed = "true" /\ health.status \in 200..299

\* the cloudinary copy took the shortcut and returned
C5_Witness ==
  /\ op = "fallback" /\ pc = "done" /\ variant = "cloudinary"
  /\ API_BASE_URL = DefaultApiBaseUrl /\ hostname = HostRemote
  /\ mocks = 1

\* C6: the strict upload returns a MediaFile only if the HTTP status is a
\* success, the body's success flag is true and its media link is
\* non-empty; a call that settles in any other case settles with an error.
C6_StrictSuccessCondition ==
  op = "upload" /\ pc = "done" =>
    /\ result.kind \in {"media", "error"}
    /\ result.kind = "media" =>
         /\ srv.mode = "respond" /\ srv.status \in 200..299
         /\ srv.bodyMode = "json"
         /\ "success" \in srv.data.present /\ srv.data.success
         /\ "mediaLink" \in srv.data.present /\ srv.data.mediaLink # <<>>
         /\ result.media.url = srv.data.mediaLink
    /\ result.kind = "error" => result.error # <<>> /\ result.media = NoMedia

\* HTTP 200 with success = true but no media link: the call failed
C6_Witness ==
  /\ op = "upload" /\ pc = "done" /\ result.kind = "error"
  /\ srv.status = 200 /\ srv.bodyMode = "json"
  /\ "success" \in srv.data.present /\ srv.data.success
  /\ caught.cause = "body"

HasQuotaText(m) == Includes(m, KwQuota) \/ Includes(m, KwLimit)

\* the text that makes a failure count as a connection failure
HasNetworkText(m) ==
  IF variant = "legacy"
  THEN Includes(m, KwNetwork) \/ Includes(m, KwFetch)
  ELSE \/ Includes(m, KwFailedToFetch)
       \/ Includes(m, KwNetwork)
       \/ Includes(m, KwNetworkError)

C8_StrictUploadCompletes == (op = "upload" /\ pc # "idle") ~> (pc = "done")

\* C9 as stated: when /health never answers, checkHealth eventually
\* returns false.
C9_HealthCheckCompletes ==
  (op = "health" /\ pc = "probe" /\ health.mode = "hang")
    ~> (pc = "done" /\ result.kind = "bool" /\ ~result.ok)

\* C10: checkHealth returns true only if the probe received an HTTP success
\* response; it never settles with an error.
C10_HealthTrueOnlyOnSuccess ==
  op = "health" =>
    /\ result.kind # "error"
    /\ pc = "done" =>
         /\ result.kind = "bool"
         /\ result.ok => /\ gets = 1
                         /\ health.mode = "respond"
                         /\ health.status \in 200..299

\* a probe answered with a non-2xx status gave false
C10_Witness ==
  /\ op = "health" /\ pc = "done"
  /\ health.mode = "respond" /\ health.status = 404
  /\ ~result.ok

(***************************************************************************)
(* The local store: saveToLocalStorage / loadFromLocalStorage              *)
(* (src/src/lib/mockData.ts)                                               *)
(*                                                                         *)
(* A JSON text is represented by the value it denotes: an array by a       *)
(* sequence, an object by a function of its keys, a Date that was written  *)
(* by its ISO text.  A property whose value is undefined is a key that is  *)
(* not in the record, which is what JSON.stringify makes of it.            *)
(***************************************************************************)
\* An array and an object as values that are computed once: the elements
\* of a function constructor are otherwise computed anew at each use
ArrayOf(list) == list \o <<>>
ObjectOf(object) == object @@ <<>>

\* Array.prototype.map
Map(F(_), list) ==
  IF Len(list) = 0 THEN <<>>
  ELSE ArrayOf([k \in DOMAIN list |-> F(list[k])])

\* the same for each value of an object
MapValues(F(_), object) ==
  IF DOMAIN object = {} THEN <<>>
  ELSE ObjectOf([key \in DOMAIN object |-> F(object[key])])

\* Date.prototype.toJSON: a Date is written as its ISO text; a value that
\* is text already is written as it is
DateJson(d) == IF IsDate(d) THEN IsoText(d.date) ELSE d

\* new Date(text)
NewDate(t) == IF DOMAIN t = {"iso"} THEN DateValue(t.iso) ELSE t

MediaFileJson(m) == [m EXCEPT !.uploadedAt = DateJson(@)]

ContentDetailsJson(d) ==
  [g \in DOMAIN d |-> IF g = "deadline" THEN DateJson(d[g]) ELSE d[g]]

IssueJson(i) ==
  [f \in DOMAIN i |->
     CASE f \in {"submittedAt", "updatedAt"} -> DateJson(i[f])
       [] f = "contentDetails" -> ContentDetailsJson(i[f])
       [] f = "mediaFiles" -> Map(MediaFileJson, i[f])
       [] OTHER -> i[f]]

ChatMessageJson(m) == [m EXCEPT !.timestamp = DateJson(@)]
ThreadJson(thread) == Map(ChatMessageJson, thread)

\* JSON.stringify(data), data being the issue list when it is saved under
\* the issues key and the message map when under the chat-messages key
Stringify(key, data) ==
  IF key = ISSUES
  THEN JsonItem("array", Map(IssueJson, data))
  ELSE JsonItem("object", MapValues(ThreadJson, data))

\* saveToLocalStorage(key, data) on the store s; throws says that
\* localStorage.setItem throws (quota exceeded, storage disabled)
saveToLocalStorage_Clears(s, key, data, throws) ==
  IF throws THEN [s EXCEPT ![key] = NoItem]
  ELSE [s EXCEPT ![key] = Stringify(key, data)]

saveToLocalStorage(s, key, data, throws) ==
  IF throws THEN s ELSE [s EXCEPT ![key] = Stringify(key, data)]

\* the map callback of the issues branch of loadFromLocalStorage
RehydrateIssue(j) ==
  [f \in DOMAIN j |->
     CASE f \in {"submittedAt", "updatedAt"} -> NewDate(j[f])
       [] f = "contentDetails" ->
            [g \in DOMAIN j[f] |->
               IF g = "deadline" THEN NewDate(j[f][g]) ELSE j[f][g]]
       [] OTHER -> j[f]]

\* the map callback of the chat-messages branch
RehydrateMessage(m) == [m EXCEPT !.timestamp = NewDate(@)]
RehydrateThread(thread) == Map(RehydrateMessage, thread)

\* How the try block of loadFromLocalStorage ends
Threw == [ends |-> "throw"]
FellThrough == [ends |-> "fallthrough"]
Returns(v) == [ends |-> "return", value |-> v]

TryLoad_AnyKey(s, key) ==
  LET stored == s[ISSUES] IN
  IF stored.kind \in {"absent", "empty"} THEN FellThrough
  ELSE IF stored.kind = "garbage" THEN Threw
  ELSE Returns(stored.value)

TryLoad(s, key) ==
  LET stored == s[key] IN
  IF stored.kind \in {"absent", "empty"} THEN FellThrough
  ELSE IF stored.kind = "garbage" THEN Threw
  ELSE LET parsed == stored.value IN
       IF key = ISSUES /\ stored.shape \in {"array", "array of null"}
       THEN IF stored.shape = "array of null"
            THEN Threw
            ELSE Returns(Map(RehydrateIssue, parsed))
       ELSE IF key = CHAT_MESSAGES
       THEN IF stored.shape = "object"
            THEN Returns(MapValues(RehydrateThread, parsed))
            ELSE Threw
       ELSE Returns(parsed)

\* loadFromLocalStorage(key, defaultValue) on the store s
loadFromLocalStorage(s, key, defaultValue) ==
  LET r == TryLoad(s, key) IN
  IF r.ends = "return" THEN r.value ELSE defaultValue

(***************************************************************************)
(* Mock data: users, generateMockIssues, generateMockChatMessages          *)
(* (src/src/lib/mockData.ts)                                               *)
(***************************************************************************)
\* the names of mockUsers
mockUsers == <<"Alex Johnson", "Sarah Wilson", "Mike Chen">>
currentUser == mockUsers[1]

\* Math.random() yields j / RandDen for some j of 0..(RandDen - 1), the draw
RandDen == 4
\* Math.floor(Math.random() * n) for the draw j
FloorTimes(j, n) == (j * n) \div RandDen

DayMs == 24 * 60 * 60 * 1000
\* Math.random() * days * 24 * 60 * 60 * 1000 for the draw j, as whole
\* milliseconds
RandomDays(j, days) == j * ((DayMs \div RandDen) * days)

\* The results of Math.random() are fixed by seed: the one for the given
\* slot of the issue of the given index and, later, for the given slot
\* after index calls of generateId()
MaxSeed == 0
Draw(s, index, slot) ==
  (s * (index + slot) + index * slot + (index \div 2) + slot) % RandDen

StatusOpen ==
  <<"o", "p", "e", "n">>
StatusInProgress ==
  <<"i", "n", "-", "p", "r", "o", "g", "r", "e", "s", "s">>
StatusResolved ==
  <<"r", "e", "s", "o", "l", "v", "e", "d">>
StatusClosed ==
  <<"c", "l", "o", "s", "e", "d">>
\* type ResolutionStatus, type Priority, type IssueType
ResolutionStatuses ==
  <<StatusOpen, StatusInProgress, StatusResolved, StatusClosed>>
Priorities == <<"low", "medium", "high", "urgent">>
IssueTypes == <<"content", "technical", "general">>

\* { ...base, ...over }
Spread(base, over) == over @@ base

baseIssue(index, id, now, d) ==
  [id |-> id,
   submittedBy |-> mockUsers[(index % Len(mockUsers)) + 1],
   submittedAt |-> DateValue(now - RandomDays(d[1], 30)),
   updatedAt |-> DateValue(now - RandomDays(d[2], 1)),
   status |-> ResolutionStatuses[FloorTimes(d[3], 4) + 1],
   priority |-> Priorities[FloorTimes(d[4], 4) + 1],
   mediaFiles |-> <<>>,
   tags |-> <<>>]

\* generateMockIssue(type, index); d[1..8] are its Math.random() results
generateMockIssue_NoDetails(type, index, id, now, d) ==
  Spread(baseIssue(index, id, now, d),
         [type |-> type, title |-> <<"Request">>, description |-> "none"])

generateMockIssue(type, index, id, now, d) ==
  CASE type = "content" ->
         Spread(baseIssue(index, id, now, d),
           [type |-> "content",
            title |-> <<"Content Request: ",
                        <<"Blog Post", "Social Media", "Newsletter",
                          "Video Script">>[(index % 4) + 1]>>,
            description |->
              "Need assistance with content creation and strategy for upcoming campaign.",
            tags |-> <<"content", "marketing", "creative">>,
            contentDetails |->
              [contentType |-> <<"blog", "social", "email", "video">>
                                 [FloorTimes(d[5], 4) + 1],
               platform |-> <<"Website", "Instagram", "LinkedIn", "YouTube">>
                              [FloorTimes(d[6], 4) + 1],
               audience |-> <<"B2B", "B2C", "Internal", "Partners">>
                              [FloorTimes(d[7], 4) + 1],
               deadline |-> DateValue(now + RandomDays(d[8], 14))]])
    [] type = "technical" ->
         Spread(baseIssue(index, id, now, d),
           [type |-> "technical",
            title |-> <<"Technical Issue: ",
                        <<"Login Error", "Database Connection", "API Timeout",
                          "UI Bug">>[(index % 4) + 1]>>,
            description |->
              "Experiencing technical difficulties that need immediate attention.",
            tags |-> <<"bug", "technical", "urgent">>,
            technicalDetails |->
              [systemType |-> <<"Web Application", "Mobile App", "API",
                                "Database">>[FloorTimes(d[5], 4) + 1],
               browser |-> <<"Chrome", "Firefox", "Safari", "Edge">>
                             [FloorTimes(d[6], 4) + 1],
               errorMessage |-> "TypeError: Cannot read property of undefined",
               stepsToReproduce |->
                 "1. Navigate to dashboard 2. Click on user profile 3. Error appears"]])
    [] type = "general" ->
         Spread(baseIssue(index, id, now, d),
           [type |-> "general",
            title |-> <<"General Request: ",
                        <<"Account Access", "Feature Request",
                          "Policy Question", "Training">>[(index % 4) + 1]>>,
            description |->
              "General inquiry that requires attention from the appropriate team.",
            tags |-> <<"general", "inquiry">>,
            generalDetails |->
              [category |-> <<"Access", "Feature", "Policy", "Training">>
                              [FloorTimes(d[5], 4) + 1],
               department |-> <<"IT", "HR", "Marketing", "Sales">>
                                [FloorTimes(d[6], 4) + 1],
               urgency |-> <<"Low", "Medium", "High">>
                             [FloorTimes(d[7], 3) + 1]]])

\* Array.prototype.sort with the comparator b[f] - a[f]: descending by the
\* date in field f, elements with equal dates keeping their order.  The
\* element at position k goes to the position Rank(k).
SortDescBy(list, f) ==
  LET Rank(k) ==
        1 + Cardinality({j \in DOMAIN list :
                           \/ list[j][f].date > list[k][f].date
                           \/ /\ list[j][f].date = list[k][f].date
                              /\ j < k})
  IN  IF Len(list) = 0 THEN <<>>
      ELSE ArrayOf([p \in DOMAIN list |->
                      list[CHOOSE k \in DOMAIN list : Rank(k) = p]])

\* for (let i = 0; i < 15; i++)
NumMockIssues == 15

\* generateMockIssues(); first is the number of generateId() calls made
\* before, which stands for the random part of the ids
generateMockIssues(now, first, s) ==
  CHOOSE sorted \in
    {SortDescBy(made, "submittedAt") :
       made \in
         {ArrayOf([k \in 1..NumMockIssues |->
                     generateMockIssue(IssueTypes[((k - 1) % 3) + 1], k - 1,
                                       generateId(now, first + k - 1), now,
                                       [slot \in 1..8 |->
                                          Draw(s, k - 1, slot)])])}} : TRUE

MsgIssueCreated ==
  <<"Issue created successfully. A support representative will be with you shortly.">>
responses ==
  << <<"Thanks for reporting this issue. We'll look into it right away.">>,
     <<"I've assigned this to our technical team. You should hear back within 24 hours.">>,
     <<"Could you provide more details about when this started happening?">>,
     <<"We've identified the issue and are working on a fix.">>,
     <<"The issue has been resolved. Please let us know if you're still experiencing problems.">>,
     <<"I've updated the status. Is there anything else I can help you with?">> >>

\* the largest number of messages generateMockChatMessages makes
MaxThread == 5

\* generateMockChatMessages(issueId); j is the draw of numMessages
generateMockChatMessages(issueId, now, first, j) ==
  LET numMessages == 2 + FloorTimes(j, 3) IN
  << [id |-> generateId(now, first),
      issueId |-> issueId,
      sender |-> "System",
      message |-> MsgIssueCreated,
      timestamp |-> DateValue(now - 60 * 60 * 1000),
      isSystem |-> TRUE] >>
  \o [i \in 1..numMessages |->
        [id |-> generateId(now, first + i),
         issueId |-> issueId,
         sender |-> mockUsers[2 + ((i - 1) % 2)],
         message |-> responses[((i - 1) % Len(responses)) + 1],
         timestamp |->
           DateValue(now - (numMessages - (i - 1)) * 30 * 60 * 1000),
         isSystem |-> FALSE]]

(***************************************************************************)
(* The page component Index: src/src/pages/Index.tsx ("plain") and its     *)
(* copy with the dashboard in src/src/components/IssueSubmissionForm.tsx   *)
(* ("dashboard"), with the form's onFormSubmit and the timers they start.  *)
(***************************************************************************)
\* limits of the exploration
MaxOps == 2            \* status changes, messages sent, submissions, reloads
MaxPick == 1           \* the user acts on one of the first MaxPick issues
MaxFailedWrites == 1   \* calls of localStorage.setItem that throw
PauseMs == 1500        \* a pause of the user while timers are pending

\* setTimeout(resolve, 1000) of onFormSubmit
SubmitDelayMs == 1000
\* setTimeout(..., 2000 + Math.random() * 3000) of handleSendMessage
ReplyDelayBaseMs == 2000
ReplyDelaySpanMs == 3000
ReplyDelay(j) == ReplyDelayBaseMs + (j * ReplyDelaySpanMs) \div RandDen

autoResponses ==
  << <<"Thanks for the update! I'll look into this right away.">>,
     <<"I've received your message and will get back to you shortly.">>,
     <<"Let me check on this and I'll update you soon.">>,
     <<"Thanks for the additional information. This helps a lot!">>,
     <<"I'm working on this now. I'll keep you posted on the progress.">> >>

MsgStatusChanged ==
  <<"I", "s", "s", "u", "e", " ", "s", "t", "a", "t", "u", "s", " ", "c", "h", "a", "n", "g", "e", "d", " ", "t", "o", " ", "\"">>

\* String.prototype.replace(a, b) for one-character a and b: the first
\* occurrence only
RECURSIVE Replace(_, _, _)
Replace(s, a, b) ==
  IF s = <<>> THEN <<>>
  ELSE IF Head(s) = a THEN <<b>> \o Tail(s)
  ELSE <<Head(s)>> \o Replace(Tail(s), a, b)

\* chatMessages[issueId] || []
ThreadOf(m, issueId) == IF issueId \in DOMAIN m THEN m[issueId] ELSE <<>>

\* { ...m, [issueId]: thread }
WithThread(m, issueId, thread) == (issueId :> thread) @@ m

\* getRecentActivity() of the dashboard copy, called in every render, sorts
\* the array of the issues state in place; the plain copy has no such call
Render(p, list) ==
  IF p = "dashboard" THEN SortDescBy(list, "updatedAt") ELSE list

\* The outcomes of n successive localStorage.setItem calls: TRUE is a throw
WriteOutcomes(n) ==
  {w \in [1..n -> BOOLEAN] :
     writeFailed + Cardinality({k \in 1..n : w[k]}) <= MaxFailedWrites}
Failures(w) == Cardinality({k \in DOMAIN w : w[k]})

\* times at which pending timers are due
Dues == {t.due : t \in replyTimers} \cup {c.due : c \in submitting}
IsNextDue(d) == \A e \in Dues : d <= e
Later(a, b) == IF a >= b THEN a ELSE b

idle ==
  <<variant, hostname, apiEnv, op, pc, file, timer, health, srv,
    probed, caught, thrown, result, gets, posts, mocks,
    serverVars, formVars>>

(***************************************************************************)
(* useEffect(() => {...}, []): the initialisation effect                   *)
(***************************************************************************)
\* position of the issue with the given id in list
IndexOf(list, id) == CHOOSE k \in DOMAIN list : list[k].id = id

\* mockIssues.forEach(issue => mockMessages[issue.id] = ...)
MockMessagesFor(mockIssues, now, first, s) ==
  ObjectOf([id \in {mockIssues[k].id : k \in DOMAIN mockIssues} |->
              LET k == IndexOf(mockIssues, id) IN
              generateMockChatMessages(id, now, first + (k - 1) * MaxThread,
                                       Draw(s, k, 9))])

\* the values the effect computes are bound once, as const does
Mount ==
  /\ ~mounted
  /\ mounted' = TRUE
  /\ \E savedIssues \in {loadFromLocalStorage(localStorage, ISSUES, <<>>)},
        savedMessages \in
          {loadFromLocalStorage(localStorage, CHAT_MESSAGES, <<>>)} :
       IF Len(savedIssues) = 0
       THEN \E w \in WriteOutcomes(2),
               mockIssues \in {generateMockIssues(clock, ids, seed)} :
              \E mockMessages \in
                   {MockMessagesFor(mockIssues, clock, ids + NumMockIssues,
                                    seed)} :
                /\ issues' = Render(page, mockIssues)
                /\ chatMessages' = mockMessages
                /\ localStorage' =
                     saveToLocalStorage(
                       saveToLocalStorage(localStorage, ISSUES, mockIssues,
                                          w[1]),
                       CHAT_MESSAGES, mockMessages, w[2])
                /\ ids' = ids + NumMockIssues + NumMockIssues * MaxThread
                /\ writeFailed' = writeFailed + Failures(w)
                /\ last' = [name |-> "seed"]
       ELSE /\ issues' = Render(page, savedIssues)
            /\ chatMessages' = savedMessages
            /\ last' = [name |-> "restore"]
            /\ UNCHANGED <<localStorage, ids, writeFailed>>
  /\ UNCHANGED <<page, seed, currentView, selectedIssue, replyTimers,
                 submitting, ops, clock, idle>>

(***************************************************************************)
(* Navigation                                                              *)
(***************************************************************************)
InChat == currentView = "chat" /\ selectedIssue # NoIssue

\* views the buttons of the current view lead to: onBack in the chat, the
\* header buttons elsewhere
Reachable(p, v) ==
  IF InChat THEN v = "issues"
  ELSE v \in (IF p = "dashboard" THEN {"dashboard", "issues", "submit"}
              ELSE {"issues", "submit"})

\* a form that is removed from the page can no longer be the one the
\* user has in front of them
Left(c) == [c EXCEPT !.live = FALSE]

SetCurrentView ==
  /\ mounted
  /\ \E v \in {"dashboard", "issues", "submit"} :
       /\ Reachable(page, v)
       /\ v # currentView
       /\ currentView' = v
  /\ submitting' = {Left(c) : c \in submitting}
  /\ UNCHANGED <<page, seed, localStorage, mounted, issues, chatMessages,
                 selectedIssue, replyTimers, ids, ops, writeFailed, last,
                 clock, idle>>

\* handleIssueClick(issue), from the list of issues or from the dashboard's
\* recent activity; of the selected issue the model keeps the id
HandleIssueClick ==
  /\ mounted
  /\ currentView \in {"issues", "dashboard"}
  /\ \E k \in 1..MaxPick :
       /\ k <= Len(issues)
       /\ selectedIssue' = issues[k].id
  /\ currentView' = "chat"
  /\ submitting' = {Left(c) : c \in submitting}
  /\ UNCHANGED <<page, seed, localStorage, mounted, issues, chatMessages,
                 replyTimers, ids, ops, writeFailed, last, clock, idle>>

(***************************************************************************)
(* handleStatusChange(issueId, status)                                     *)
(***************************************************************************)
StatusMessage(id, issueId, status, now) ==
  [id |-> id,
   issueId |-> issueId,
   sender |-> "System",
   message |-> MsgStatusChanged \o Replace(status, "-", " ") \o <<"\"">>,
   timestamp |-> DateValue(now),
   isSystem |-> TRUE]

WithStatus_KeepsTime(list, issueId, status, now) ==
  ArrayOf([k \in DOMAIN list |->
             IF list[k].id = issueId
             THEN [list[k] EXCEPT !.status = status]
             ELSE list[k]])

\* issues.map(issue => issue.id === issueId ? {...} : issue)
WithStatus(list, issueId, status, now) ==
  ArrayOf([k \in DOMAIN list |->
             IF list[k].id = issueId
             THEN [list[k] EXCEPT !.status = status,
                                  !.updatedAt = DateValue(now)]
             ELSE list[k]])

\* the status select of an issue card reports a value other than the
\* current one
HandleStatusChange ==
  /\ mounted
  /\ currentView = "issues"
  /\ ops < MaxOps
  /\ \E k \in 1..MaxPick, n \in DOMAIN ResolutionStatuses,
        w \in WriteOutcomes(2) :
       /\ k <= Len(issues)
       /\ ResolutionStatuses[n] # issues[k].status
       /\ LET issueId == issues[k].id
              status == ResolutionStatuses[n]
              updatedIssues == WithStatus(issues, issueId, status, clock)
              systemMessage ==
                StatusMessage(generateId(clock, ids), issueId, status, clock)
              updatedMessages ==
                WithThread(chatMessages, issueId,
                           Append(ThreadOf(chatMessages, issueId),
                                  systemMessage))
          IN  /\ issues' = Render(page, updatedIssues)
              /\ chatMessages' = updatedMessages
              /\ localStorage' =
                   saveToLocalStorage(
                     saveToLocalStorage(localStorage, ISSUES, updatedIssues,
                                        w[1]),
                     CHAT_MESSAGES, updatedMessages, w[2])
              /\ writeFailed' = writeFailed + Failures(w)
              /\ last' = [name |-> "changeStatus", issueId |-> issueId,
                          status |-> status]
  /\ ids' = ids + 1
  /\ ops' = ops + 1
  /\ UNCHANGED <<page, seed, mounted, currentView, selectedIssue,
                 replyTimers, submitting, clock, idle>>

(***************************************************************************)
(* handleSendMessage(issueId, message) and its timer                       *)
(***************************************************************************)
\* what the user types into the chat, trimmed
TypedMessages == { <<"Any news on this?">> }

UserMessage(id, issueId, message, now) ==
  [id |-> id,
   issueId |-> issueId,
   sender |-> currentUser,
   message |-> message,
   timestamp |-> DateValue(now),
   isSystem |-> FALSE]

HandleSendMessage ==
  /\ mounted
  /\ InChat
  /\ ops < MaxOps
  /\ \E message \in TypedMessages, j \in {0, RandDen - 1}, w \in WriteOutcomes(1) :
       LET issueId == selectedIssue
           newMessage == UserMessage(generateId(clock, ids), issueId,
                                     message, clock)
           updatedMessages ==
             WithThread(chatMessages, issueId,
                        Append(ThreadOf(chatMessages, issueId), newMessage))
       IN  /\ chatMessages' = updatedMessages
           /\ localStorage' =
                saveToLocalStorage(localStorage, CHAT_MESSAGES,
                                   updatedMessages, w[1])
           /\ writeFailed' = writeFailed + Failures(w)
           /\ replyTimers' =
                replyTimers \cup
                  {[issueId |-> issueId, due |-> clock + ReplyDelay(j),
                    for |-> newMessage.id]}
           /\ last' = [name |-> "sendMessage", issueId |-> issueId,
                       id |-> newMessage.id]
  /\ ids' = ids + 1
  /\ ops' = ops + 1
  /\ UNCHANGED <<page, seed, mounted, issues, currentView, selectedIssue,
                 submitting, clock, idle>>

AutoResponseMessage(id, issueId, j, now) ==
  [id |-> id,
   issueId |-> issueId,
   sender |-> "Sarah Wilson",
   message |-> autoResponses[FloorTimes(j, Len(autoResponses)) + 1],
   timestamp |-> DateValue(now),
   isSystem |-> FALSE]

\* the callback of the timer: setChatMessages(prev => ...) works on the
\* state of the moment the timer fires
AutoResponse ==
  /\ mounted
  /\ \E t \in replyTimers, w \in WriteOutcomes(1) :
       /\ IsNextDue(t.due)
       /\ clock' = Later(clock, t.due)
       /\ LET autoResponse ==
                AutoResponseMessage(generateId(clock', ids), t.issueId,
                                    Draw(seed, ids, 0), clock')
              updated ==
                WithThread(chatMessages, t.issueId,
                           Append(ThreadOf(chatMessages, t.issueId),
                                  autoResponse))
          IN  /\ chatMessages' = updated
              /\ localStorage' =
                   saveToLocalStorage(localStorage, CHAT_MESSAGES, updated,
                                      w[1])
              /\ writeFailed' = writeFailed + Failures(w)
              /\ last' = [name |-> "autoReply", issueId |-> t.issueId,
                          id |-> autoResponse.id]
       /\ replyTimers' = replyTimers \ {t}
  /\ ids' = ids + 1
  /\ UNCHANGED <<page, seed, mounted, issues, currentView, selectedIssue,
                 submitting, ops, idle>>

(***************************************************************************)
(* onFormSubmit(data) of IssueSubmissionForm and handleSubmitIssue         *)
(***************************************************************************)
\* what the user has entered: the active tab, the deadline field and the
\* files uploaded so far
FormInputs ==
  {[tab |-> "content", deadline |-> TRUE, files |-> 1],
   [tab |-> "content", deadline |-> FALSE, files |-> 0],
   [tab |-> "technical", deadline |-> FALSE, files |-> 0],
   [tab |-> "general", deadline |-> FALSE, files |-> 1]}

\* the mediaFiles state of the form: what the mock upload returned for the
\* chosen files
MediaFilesOf(in, first, now) ==
  ArrayOf([k \in 1..in.files |->
             uploadMediaFile(CHOOSE f \in Files : f.name = "a.png",
                             generateId(now, first + 2 * k - 1),
                             generateId(now, first + 2 * k), now)])

\* const issue: Issue = {...}
FormIssue(in, id, first, now) ==
  Spread(
    [id |-> id,
     title |-> <<"Cannot publish">>,
     description |-> "The publish button does nothing.",
     type |-> in.tab,
     priority |-> "medium",
     status |-> StatusOpen,
     submittedBy |-> currentUser,
     submittedAt |-> DateValue(now),
     updatedAt |-> DateValue(now),
     tags |-> <<"publish">>,
     mediaFiles |-> MediaFilesOf(in, first, now)],
    CASE in.tab = "content" ->
           [contentDetails |->
              Spread([contentType |-> "blog", platform |-> "Website",
                      audience |-> "B2B"],
                     IF in.deadline
                     THEN [deadline |-> DateValue(now + DayMs)]
                     ELSE <<>>)]
      [] in.tab = "technical" ->
           [technicalDetails |->
              [systemType |-> "API", browser |-> "Firefox",
               errorMessage |-> "500", stepsToReproduce |-> "press publish"]]
      [] in.tab = "general" ->
           [generalDetails |->
              [category |-> "Access", department |-> "IT",
               urgency |-> "High"]])

\* The submit button is pressed.  The call builds the issue and suspends in
\* its delay; it has captured the onSubmit it was rendered with, that is
\* handleSubmitIssue with the issues and chatMessages of that render.
OnFormSubmit ==
  /\ mounted
  /\ currentView = "submit"
  /\ ops < MaxOps
  /\ \A c \in submitting : ~c.live
  /\ \E in \in FormInputs :
       LET issue == FormIssue(in, generateId(clock, ids), ids, clock) IN
       /\ submitting' =
            submitting \cup
              {[issue |-> issue, issues |-> issues,
                chatMessages |-> chatMessages,
                due |-> clock + SubmitDelayMs, live |-> TRUE]}
       /\ ids' = ids + 1 + 2 * in.files
       /\ last' = [name |-> "press", issueId |-> issue.id]
  /\ ops' = ops + 1
  /\ UNCHANGED <<page, seed, localStorage, mounted, issues, chatMessages,
                 currentView, selectedIssue, replyTimers, writeFailed,
                 clock, idle>>

\* handleSubmitIssue(newIssue) of the render whose issues and chatMessages
\* are given
SubmittedIssues(newIssue, list) == <<newIssue>> \o list

\* the delay is over: onSubmit(issue)
SubmitIssue ==
  /\ mounted
  /\ \E c \in submitting, w \in WriteOutcomes(2) :
       /\ IsNextDue(c.due)
       /\ clock' = Later(clock, c.due)
       /\ \E updatedIssues \in {SubmittedIssues(c.issue, c.issues)},
             initialMessages \in
               {generateMockChatMessages(c.issue.id, Later(clock, c.due),
                                         ids, Draw(seed, ids, 9))} :
            \E updatedMessages \in
                 {WithThread(c.chatMessages, c.issue.id, initialMessages)} :
              /\ issues' = Render(page, updatedIssues)
              /\ chatMessages' = updatedMessages
              /\ localStorage' =
                   saveToLocalStorage(
                     saveToLocalStorage(localStorage, ISSUES, updatedIssues,
                                        w[1]),
                     CHAT_MESSAGES, updatedMessages, w[2])
              /\ writeFailed' = writeFailed + Failures(w)
              /\ last' = [name |-> "submitIssue", issueId |-> c.issue.id]
       /\ submitting' = {Left(d) : d \in submitting \ {c}}
  /\ currentView' = "issues"
  /\ ids' = ids + MaxThread
  /\ UNCHANGED <<page, seed, mounted, selectedIssue, replyTimers, ops,
                 idle>>

(***************************************************************************)
(* The environment: time passing, the page being loaded again              *)
(***************************************************************************)
\* the user waits while timers are pending, not beyond the next of them
Pause ==
  /\ mounted
  /\ Dues # {}
  /\ IsNextDue(clock + PauseMs)
  /\ clock' = clock + PauseMs
  /\ UNCHANGED <<pageVars, idle>>

\* The page is loaded again: the component state and every pending timer
\* and promise are gone, the store stays
Reload ==
  /\ mounted
  /\ ops < MaxOps
  /\ ops' = ops + 1
  /\ mounted' = FALSE
  /\ issues' = <<>>
  /\ chatMessages' = <<>>
  /\ currentView' = InitialView(page)
  /\ selectedIssue' = NoIssue
  /\ replyTimers' = {}
  /\ submitting' = {}
  /\ last' = [name |-> "reload"]
  /\ UNCHANGED <<page, seed, localStorage, ids, writeFailed, clock, idle>>

PageInit ==
  /\ Listening(FALSE)
  /\ NoForm
  /\ page \in Pages
  /\ seed \in 0..MaxSeed
  /\ localStorage = EmptyStorage
  /\ Unmounted(page)
  /\ ids = 0
  /\ ops = 0
  /\ writeFailed = 0
  /\ last = NoHandler
  /\ clock = 0
  /\ variant = "googleDrive"
  /\ hostname = HostLocalhost
  /\ apiEnv = <<>>
  /\ op = "none"
  /\ pc = "idle"
  /\ file = NoFile
  /\ timer = 0
  /\ health = NoServer
  /\ srv = NoServer
  /\ probed = "none"
  /\ caught = NoError
  /\ thrown = <<>>
  /\ result = NoResult
  /\ gets = 0
  /\ posts = 0
  /\ mocks = 0

PageNext ==
  \/ Mount
  \/ SetCurrentView
  \/ HandleIssueClick
  \/ HandleStatusChange
  \/ HandleSendMessage
  \/ AutoResponse
  \/ OnFormSubmit
  \/ SubmitIssue
  \/ Pause
  \/ Reload

PageSpec == PageInit /\ [][PageNext]_vars

\* a timer that is due fires, a delay that is over ends
PageFairness ==
  /\ WF_vars(Mount)
  /\ WF_vars(AutoResponse)
  /\ WF_vars(SubmitIssue)

PageFairSpec == PageSpec /\ PageFairness

(***************************************************************************)
(* Claims about the local store                                            *)
(***************************************************************************)
\* the JSON value null
JsonNull == [json |-> "null"]

\* what load(key) yields right after save(key, data)
SavedAndLoaded(key, data) ==
  loadFromLocalStorage(
    saveToLocalStorage(EmptyStorage, key, data, FALSE), key, JsonNull)

\* C11: for the issue list and the message map the page holds, load after
\* save yields a structure equal to the one saved, every date of it (those
\* of the attachments included) being a date again and not text.
C11_RoundTrip ==
  mounted =>
    /\ SavedAndLoaded(ISSUES, issues) = issues
    /\ SavedAndLoaded(CHAT_MESSAGES, chatMessages) = chatMessages

\* stored items that hold nothing or do not parse
Unparsable == {NoItem, EmptyItem, GarbageItem}
\* stored texts that parse and on which the re-hydration of the key throws:
\* [null] under the issues key, null and {"x": null} under the other
Unhydratable(key) ==
  IF key = ISSUES THEN {JsonItem("array of null", <<JsonNull>>)}
  ELSE IF key = CHAT_MESSAGES
  THEN {JsonItem("null", JsonNull),
        JsonItem("object of null", [x |-> JsonNull])}
  ELSE {}
DefaultValues == {<<>>, JsonNull}

\* C12: load(key, default) yields default when nothing is stored under key,
\* when the stored text does not parse and when its re-hydration fails,
\* whatever the other keys hold; in particular for a key never saved.
C12_LoadDefaults ==
  \A key \in StorageKeys, d \in DefaultValues :
    /\ \A item \in Unparsable \cup Unhydratable(key) :
         loadFromLocalStorage([localStorage EXCEPT ![key] = item], key, d) = d
    /\ localStorage[OtherKey] = NoItem
    /\ loadFromLocalStorage(localStorage, OtherKey, d) = d

\* the page found nothing under the issues key although the other key held
\* the threads of an earlier run, and seeded anew
C12_Witness ==
  /\ mounted
  /\ last.name = "seed"
  /\ ops > 0
  /\ writeFailed > 0
  /\ localStorage[CHAT_MESSAGES].kind = "json"

(***************************************************************************)
(* Claims about the page and the store                                     *)
(***************************************************************************)
\* the number of saves the handler of the given name makes
SavesOf(name) ==
  IF name \in {"seed", "changeStatus", "submitIssue"} THEN 2
  ELSE IF name \in {"sendMessage", "autoReply"} THEN 1
  ELSE 0

\* the keys whose stored item differs between the stores s and t
ChangedKeys(s, t) == {key \in StorageKeys : s[key] # t[key]}

\* the ids of the elements of a list
IdsOf(list) == {list[k].id : k \in DOMAIN list}

\* the issue with the given id in list
IssueOf(list, id) == list[CHOOSE k \in DOMAIN list : list[k].id = id]

\* the handler named by h has had its effect on the issue list and the
\* message map given
Applied(h, list, messages) ==
  CASE h.name = "seed" ->
         /\ Len(list) = NumMockIssues
         /\ DOMAIN messages = IdsOf(list)
    [] h.name = "changeStatus" ->
         /\ h.issueId \in IdsOf(list)
         /\ IssueOf(list, h.issueId).status = h.status
         /\ h.issueId \in DOMAIN messages
         /\ messages[h.issueId][Len(messages[h.issueId])].isSystem
    [] h.name \in {"sendMessage", "autoReply"} ->
         /\ h.issueId \in DOMAIN messages
         /\ messages[h.issueId][Len(messages[h.issueId])].id = h.id
    [] h.name = "submitIssue" ->
         /\ h.issueId \in IdsOf(list)
         /\ h.issueId \in DOMAIN messages
    [] OTHER -> FALSE

\* C13: a step in which a save fails is a completed handler (bootstrap,
\* changeStatus, sendMessage, auto-reply, submitIssue) whose mutation is in
\* the in-memory state; each failed save leaves the item under its key as it
\* was, and no other key is touched.
C13_FailedSaveNonFatal ==
  [][writeFailed' > writeFailed =>
       /\ mounted'
       /\ Applied(last', issues', chatMessages')
       /\ Cardinality(ChangedKeys(localStorage, localStorage'))
            <= SavesOf(last'.name) - (writeFailed' - writeFailed)
       /\ \A key \in ChangedKeys(localStorage, localStorage') :
            /\ key \in {ISSUES, CHAT_MESSAGES}
            /\ localStorage'[key].kind = "json"]_vars

\* a status change whose save of the messages failed: the thread in memory
\* has the system message, the stored map is the one of before
C13_Witness ==
  /\ mounted
  /\ writeFailed > 0
  /\ last.name = "changeStatus"
  /\ localStorage[ISSUES] = Stringify(ISSUES, issues)
  /\ localStorage[CHAT_MESSAGES].kind = "json"
  /\ localStorage[CHAT_MESSAGES] # Stringify(CHAT_MESSAGES, chatMessages)

\* C14: provided no save has failed, whenever the page is mounted and one of
\* bootstrap, submitIssue, changeStatus, sendMessage or the auto-reply has
\* completed, the list stored under the issues key is the in-memory issue
\* list and the map stored under the chat-messages key is the in-memory
\* message map.
C14_Mirror ==
  (mounted /\ writeFailed = 0 /\ SavesOf(last.name) > 0) =>
    /\ localStorage[ISSUES] = Stringify(ISSUES, issues)
    /\ localStorage[CHAT_MESSAGES] = Stringify(CHAT_MESSAGES, chatMessages)

\* the same for the copy of the page without the dashboard
C14_MirrorPlain == page = "plain" => C14_Mirror

\* the issue list and the message map a stored item denotes; none before
\* the first save
StoredList(item) == IF item.kind = "json" THEN item.value ELSE <<>>

\* every issue of the list old is in the list new
KeepsIssues(old, new) == IdsOf(old) \subseteq IdsOf(new)

\* every thread of the map old is in the map new with the messages it had,
\* these unchanged and in the order they had
KeepsMessages(old, new) ==
  \A id \in DOMAIN old :
    /\ id \in DOMAIN new
    /\ SelectSeq(new[id], LAMBDA m : m.id \in IdsOf(old[id])) = old[id]

\* an issue of both lists whose status differs is the one whose status the
\* handler h changed, and has the status h gave it
StatusOnlyChangedBy(h, old, new) ==
  \A id \in IdsOf(old) \cap IdsOf(new) :
    IssueOf(new, id).status # IssueOf(old, id).status =>
      /\ h.name = "changeStatus"
      /\ h.issueId = id
      /\ IssueOf(new, id).status = h.status

\* C15: as long as no save fails, in no step, whatever handlers, delayed
\* submissions and reply timers are interleaved, is an issue or a message
\* lost, the order of the messages of a thread changed or a status set by
\* anything but changeStatus: neither in memory while the page stays
\* mounted nor in what is persisted.
C15_AppendOnly ==
  [][writeFailed' = 0 =>
     /\ (mounted /\ mounted') =>
          /\ KeepsIssues(issues, issues')
          /\ KeepsMessages(chatMessages, chatMessages')
          /\ StatusOnlyChangedBy(last', issues, issues')
     /\ KeepsIssues(StoredList(localStorage[ISSUES]),
                    StoredList(localStorage'[ISSUES]))
     /\ KeepsMessages(StoredList(localStorage[CHAT_MESSAGES]),
                      StoredList(localStorage'[CHAT_MESSAGES]))
     /\ StatusOnlyChangedBy(last', StoredList(localStorage[ISSUES]),
                            StoredList(localStorage'[ISSUES]))]_vars

\* a reply of the fixed second party: one of the canned responses
IsAutoReply(m) ==
  /\ m.sender = "Sarah Wilson"
  /\ ~m.isSystem
  /\ \E k \in DOMAIN autoResponses : m.message = autoResponses[k]

\* the map new is the map old with the one message m appended to the
\* thread of issueId
AppendsOne(old, new, issueId, m) ==
  /\ DOMAIN new = DOMAIN old \cup {issueId}
  /\ new[issueId] = Append(ThreadOf(old, issueId), m)
  /\ \A id \in DOMAIN old \ {issueId} : new[id] = old[id]
  /\ m.issueId = issueId

\* unless the save failed in this step, the stored map is the one in memory
MessagesPersisted ==
  writeFailed' = writeFailed =>
    localStorage'[CHAT_MESSAGES] = Stringify(CHAT_MESSAGES, chatMessages')

\* sendMessage appends the user's message, persists and starts the timer
C16_Send ==
  (last'.name = "sendMessage" /\ ops' = ops + 1) =>
    /\ \E m \in {chatMessages'[last'.issueId]
                   [Len(chatMessages'[last'.issueId])]} :
         /\ AppendsOne(chatMessages, chatMessages', last'.issueId, m)
         /\ m.sender = "Alex Johnson"
         /\ ~m.isSystem
         /\ m.message \in TypedMessages
         /\ \E t \in replyTimers' \ replyTimers :
              t.issueId = last'.issueId /\ t.for = m.id
    /\ last'.issueId = selectedIssue
    /\ MessagesPersisted

\* a timer that goes while the page stays appends its one reply to the
\* thread of the message it was started for, and persists
C16_Reply ==
  (mounted' /\ replyTimers' # replyTimers /\ replyTimers' \subseteq replyTimers)
    => /\ Cardinality(replyTimers \ replyTimers') = 1
       /\ \E t \in replyTimers \ replyTimers' :
            \E m \in {chatMessages'[t.issueId][Len(chatMessages'[t.issueId])]} :
              /\ AppendsOne(chatMessages, chatMessages', t.issueId, m)
              /\ IsAutoReply(m)
       /\ MessagesPersisted

\* a reply that is in its thread is in it after the step, in memory and,
\* if no save has failed, in the store
C16_ReplyStays ==
  (mounted /\ mounted' /\ writeFailed' = 0) =>
    \A id \in DOMAIN chatMessages :
      \A k \in DOMAIN chatMessages[id] :
        IsAutoReply(chatMessages[id][k]) =>
          /\ id \in DOMAIN chatMessages'
          /\ \E n \in DOMAIN chatMessages'[id] :
               chatMessages'[id][n] = chatMessages[id][k]

\* C16: sendMessage appends one non-system message of the current user to
\* the thread of the issue and persists; unless the page is loaded again,
\* each pending reply timer eventually fires, whatever view or issue is
\* shown by then, appending exactly one non-system reply of the second
\* party to the same thread and persisting it; and a reply once appended
\* stays in its thread.
C16_SendAndReply ==
  /\ [][C16_Send /\ C16_Reply /\ C16_ReplyStays]_vars
  /\ \A n \in 1..MaxOps :
       (Cardinality(replyTimers) >= n)
         ~> (Cardinality(replyTimers) < n \/ ~mounted)

\* the parts of C16 that are about the sending and the firing alone
C16_SendAndFire ==
  /\ [][C16_Send /\ C16_Reply]_vars
  /\ \A n \in 1..MaxOps :
       (Cardinality(replyTimers) >= n)
         ~> (Cardinality(replyTimers) < n \/ ~mounted)

\* the words by which a message names a status
StatusWords(status) ==
  IF status = <<"i", "n", "-", "p", "r", "o", "g", "r", "e", "s", "s">>
  THEN <<"i", "n", " ", "p", "r", "o", "g", "r", "e", "s", "s">>
  ELSE status

\* the stored issue list holds the issues of the list given, as JSON
IssuesPersisted(list) ==
  LET stored == StoredList(localStorage'[ISSUES]) IN
  /\ Len(stored) = Len(list)
  /\ \A k \in DOMAIN list :
       \E n \in DOMAIN stored : stored[n] = IssueJson(list[k])

\* What a step of changeStatus does, but for the time it gives the issue:
\* the issue has the new status and is otherwise as it was, its thread has
\* one more message, a system message naming the status, every other issue
\* and thread is as it was, and both collections are persisted unless a
\* save failed
StatusChanged ==
  LET id == last'.issueId
      old == IssueOf(issues, id)
      new == IssueOf(issues', id)
  IN  /\ id \in IdsOf(issues)
      /\ new = [old EXCEPT !.status = last'.status,
                           !.updatedAt = new.updatedAt]
      /\ old.status # last'.status
      /\ \E m \in {chatMessages'[id][Len(chatMessages'[id])]} :
           /\ AppendsOne(chatMessages, chatMessages', id, m)
           /\ m.isSystem
           /\ m.sender = "System"
           /\ Includes(m.message, StatusWords(last'.status))
      /\ Len(issues') = Len(issues)
      /\ IdsOf(issues') = IdsOf(issues)
      /\ \A other \in IdsOf(issues) \ {id} :
           IssueOf(issues', other) = IssueOf(issues, other)
      /\ writeFailed' = writeFailed =>
           /\ IssuesPersisted(issues')
           /\ MessagesPersisted

Submitted ==
  LET id == last'.issueId IN
  /\ id \notin IdsOf(issues)
  /\ issues'[1].id = id
  /\ issues' = <<issues'[1]>> \o issues
  /\ DOMAIN chatMessages' = DOMAIN chatMessages \cup {id}
  /\ chatMessages'[id][1].isSystem
  /\ \A other \in DOMAIN chatMessages :
       chatMessages'[other] = chatMessages[other]
  /\ writeFailed' = writeFailed =>
       /\ localStorage'[ISSUES] = Stringify(ISSUES, issues')
       /\ MessagesPersisted

\* C18: submitIssue puts the new issue at the head of the issue list, the
\* issues there were following in the order they had, gives the new issue a
\* thread that begins with a system message, leaves the other threads as
\* they were and persists both collections.
C18_SubmitPrepends ==
  [][(last'.name = "submitIssue" /\ ids' > ids) => Submitted]_vars

\* the same for a submission during whose delay nothing has changed the
\* issues or the messages
C18_SubmitPrependsUndisturbed ==
  [][(/\ last'.name = "submitIssue"
      /\ ids' > ids
      /\ \A c \in submitting :
           c.issues = issues /\ c.chatMessages = chatMessages)
       => Submitted]_vars

\* a list is in descending order of the date in field f
IsSortedDescBy(list, f) ==
  \A k \in 1..(Len(list) - 1) : list[k][f].date >= list[k + 1][f].date

\* the number of issues of the given type in list
CountOfType(list, type) ==
  Cardinality({k \in DOMAIN list : list[k].type = type})

\* What the claim says of the initialisation that loads no issue: before,
\* n ids had been generated and the store was s
Bootstrapped ==
  /\ Len(issues') = 15
  /\ \A type \in {"content", "technical", "general"} :
       CountOfType(issues', type) = 5
  /\ \A k \in 0..14 :
       \E n \in DOMAIN issues' :
         /\ issues'[n].id = generateId(clock, ids + k)
         /\ issues'[n].type = <<"content", "technical", "general">>[(k % 3) + 1]
  /\ IsSortedDescBy(issues', "submittedAt")
  /\ DOMAIN chatMessages' = IdsOf(issues')
  /\ \A id \in DOMAIN chatMessages' :
       /\ Len(chatMessages'[id]) > 0
       /\ \A k \in DOMAIN chatMessages'[id] :
            chatMessages'[id][k].issueId = id
  /\ writeFailed' = writeFailed =>
       /\ localStorage'[ISSUES] = Stringify(ISSUES, issues')
       /\ MessagesPersisted

\* and of the one that loads issues
Restored ==
  /\ issues' = loadFromLocalStorage(localStorage, ISSUES, <<>>)
  /\ chatMessages' = loadFromLocalStorage(localStorage, CHAT_MESSAGES, <<>>)
  /\ UNCHANGED <<localStorage, ids>>

\* C19: the initialisation that loads an empty issue collection generates
\* exactly 15 issues, their types cycling content, technical, general, has
\* the list sorted descending by submission time, generates one thread per
\* issue and persists both collections; the one that loads issues generates
\* nothing and has the loaded state in memory.
C19_Bootstrap ==
  [][(~mounted /\ mounted') =>
       IF Len(loadFromLocalStorage(localStorage, ISSUES, <<>>)) = 0
       THEN Bootstrapped
       ELSE Restored]_vars

\* the same for the copy of the page without the dashboard
C19_BootstrapPlain ==
  [][(~mounted /\ mounted' /\ page = "plain") =>
       IF Len(loadFromLocalStorage(localStorage, ISSUES, <<>>)) = 0
       THEN Bootstrapped
       ELSE Restored]_vars

\* the detail records an issue can carry, and the one of each type
DetailKeys == {"contentDetails", "technicalDetails", "generalDetails"}
DetailOf(type) ==
  CASE type = "content" -> "contentDetails"
    [] type = "technical" -> "technicalDetails"
    [] type = "general" -> "generalDetails"

\* each issue of the list carries the detail record of its type and no other
HasOwnDetails(list) ==
  \A k \in DOMAIN list :
    /\ list[k].type \in {"content", "technical", "general"}
    /\ DOMAIN list[k] \cap DetailKeys = {DetailOf(list[k].type)}

\* C20: every issue, in memory, in the store, loaded from the store and in
\* a submission under way, carries exactly one detail record, the one of
\* its type.
C20_OneDetailRecord ==
  /\ HasOwnDetails(issues)
  /\ HasOwnDetails(StoredList(localStorage[ISSUES]))
  /\ HasOwnDetails(loadFromLocalStorage(localStorage, ISSUES, <<>>))
  /\ \A c \in submitting : HasOwnDetails(<<c.issue>>)

\* issues of all three types, the seeded ones and a submitted one, were
\* saved and loaded again
C20_Witness ==
  /\ mounted
  /\ last.name = "restore"
  /\ Len(issues) = 16
  /\ \A type \in {"content", "technical", "general"} :
       CountOfType(issues, type) > 0
  /\ \E k \in DOMAIN issues : issues[k].submittedBy = "Alex Johnson"
                                /\ issues[k].tags = <<"publish">>

(***************************************************************************)
(* The backend: src/unnamed/part_001 (the Cloudinary server, of which      *)
(* src/server/index.js is an unmerged copy; src/unnamed/part_000 is the    *)
(* same server for Google Drive, with that provider's name in its texts)   *)
(***************************************************************************)
\* limit of the exploration: requests received
MaxRequests == 3

\* "credentials"
KwCredentials ==
  <<"c","r","e","d","e","n","t","i","a","l","s">>

\* "not configured"
KwNotConfigured ==
  <<"n","o","t"," ","c","o","n","f","i","g","u","r","e","d">>

\* "Internal server error"
SrvInternal ==
  <<"I","n","t","e","r","n","a","l"," ","s","e","r","v","e","r"," ","e","r",
    "r","o","r">>

\* "File too large. Maximum size is 50MB."
SrvTooLarge ==
  <<"F","i","l","e"," ","t","o","o"," ","l","a","r","g","e","."," ","M","a",
    "x","i","m","u","m"," ","s","i","z","e"," ","i","s"," ","5","0","M","B",
    ".">>

\* limits.fileSize of multer
MaxFileSize == 52428800

\* allowedTypes of the fileFilter
allowedTypes ==
  {"image/jpeg", "image/png", "image/gif", "image/webp", "video/mp4",
   "video/webm", "video/quicktime", "application/pdf", "application/msword",
   "application/vnd.openxmlformats-officedocument.wordprocessingml.document",
   "text/plain"}

\* the file part of a multipart request: the files of the client, a file
\* over the size limit, and NoFile for a request without a file part
RequestFiles ==
  Files \cup {NoFile, [name |-> "big.mp4", type |-> "video/mp4",
                       size |-> MaxFileSize + 1]}

\* the messages of the errors cloudinary.uploader.upload rejects with:
\* "Request had invalid authentication credentials", "Storage quota
\* exceeded", "User rate limit exceeded", "Rate Limit Exceeded" and
\* "socket hang up"
ProviderErrors ==
  {<<"R","e","q","u","e","s","t"," ","h","a","d"," ","i","n","v","a","l","i",
     "d"," ","a","u","t","h","e","n","t","i","c","a","t","i","o","n"," ","c",
     "r","e","d","e","n","t","i","a","l","s">>,
   <<"S","t","o","r","a","g","e"," ","q","u","o","t","a"," ","e","x","c","e",
     "e","d","e","d">>,
   <<"U","s","e","r"," ","r","a","t","e"," ","l","i","m","i","t"," ","e","x",
     "c","e","e","d","e","d">>,
   <<"R","a","t","e"," ","L","i","m","i","t"," ","E","x","c","e","e","d","e",
     "d">>,
   <<"s","o","c","k","e","t"," ","h","a","n","g"," ","u","p">>}

\* res.json({status: "OK", timestamp, cloudinaryInitialized}) of GET /health
HealthReply_ByProvider(initialized) ==
  [status |-> IF initialized THEN 200 ELSE 503,
   text |-> IF initialized THEN "OK" ELSE "DOWN",
   cloudinaryInitialized |-> initialized]

HealthReply(initialized) ==
  [status |-> 200, text |-> "OK", cloudinaryInitialized |-> initialized]

\* a response as the log of sent responses holds it
Response(id, kind, stored, status, data, reply) ==
  [id |-> id, kind |-> kind, stored |-> stored, status |-> status,
   data |-> data, health |-> reply]

NoHealth == [status |-> 0, text |-> "", cloudinaryInitialized |-> FALSE]

\* res.status(status).json({success: false, error: message})
Failure(id, stored, status, message) ==
  Response(id, "upload", stored, status, ErrorBody(message), NoHealth)

\* res.json({success: true, mediaLink, fileName, fileSize, mimeType})
Success(id, f, mediaLink) ==
  Response(id, "upload", TRUE, 200,
           [FullBody EXCEPT !.mediaLink = mediaLink, !.fileName = f.name,
                            !.fileSize = f.size, !.mimeType = f.type],
           NoHealth)

\* the catch block's choice of the error response
CatchResponse(id, message) ==
  IF Includes(message, KwCredentials) \/ Includes(message, KwNotConfigured)
  THEN Failure(id, TRUE, 500, SrvConfigError)
  ELSE IF Includes(message, KwQuota) \/ Includes(message, KwLimit)
  THEN Failure(id, TRUE, 429, MsgQuota)
  ELSE Failure(id, TRUE, 500, MsgGeneric)

\* fs.unlinkSync(path) of the temporary file of request id
Unlink(dir, id) == dir \ {id}

\* what the backend leaves alone
browser == <<uploadVars, clock, pageVars, formVars>>

\* app.get("/health", ...)
GetHealth ==
  /\ received < MaxRequests
  /\ received' = received + 1
  /\ sent' = Append(sent, Response(received + 1, "health", FALSE,
                                   HealthReply(isCloudinaryInitialized).status,
                                   EmptyBody,
                                   HealthReply(isCloudinaryInitialized)))
  /\ UNCHANGED <<isCloudinaryInitialized, awaiting, uploads>>
  /\ UNCHANGED browser

\* app.post("/upload-media", upload.single("file"), ...): the multipart
\* layer and the handler up to its await, or to the response it sends
\* before
PostUploadMedia ==
  /\ received < MaxRequests
  /\ received' = received + 1
  /\ \E f \in RequestFiles :
       LET id == received + 1 IN
       IF f = NoFile
       THEN \* !req.file
            /\ sent' = Append(sent, Failure(id, FALSE, 400, SrvNoFile))
            /\ UNCHANGED <<awaiting, uploads>>
       ELSE IF f.type \notin allowedTypes
       THEN \* the fileFilter's error, answered by the error middleware
            /\ sent' = Append(sent, Failure(id, FALSE, 500, SrvInternal))
            /\ UNCHANGED <<awaiting, uploads>>
       ELSE IF f.size > MaxFileSize
       THEN \* MulterError LIMIT_FILE_SIZE; multer removes what it stored
            /\ sent' = Append(sent, Failure(id, FALSE, 400, SrvTooLarge))
            /\ UNCHANGED <<awaiting, uploads>>
       ELSE IF ~isCloudinaryInitialized
       THEN \* the temporary file is stored, the handler returns the 500
            /\ uploads' = uploads \cup {id}
            /\ sent' = Append(sent, Failure(id, TRUE, 500, SrvNotConfigured))
            /\ UNCHANGED awaiting
       ELSE \* await uploadToCloudinary(tempPath, originalname, mimetype)
            /\ uploads' = uploads \cup {id}
            /\ awaiting' = awaiting \cup {[id |-> id, file |-> f]}
            /\ UNCHANGED sent
  /\ UNCHANGED isCloudinaryInitialized
  /\ UNCHANGED browser

\* the provider's upload resolves: the temporary file is removed, the
\* success response sent
ProviderResolves ==
  /\ \E r \in awaiting :
       /\ awaiting' = awaiting \ {r}
       /\ uploads' = Unlink(uploads, r.id)
       /\ sent' = Append(sent, Success(r.id, r.file, LinkXY))
  /\ UNCHANGED <<isCloudinaryInitialized, received>>
  /\ UNCHANGED browser

\* the provider's upload rejects: the catch block removes the temporary
\* file and sends the error response
ProviderRejects ==
  /\ \E r \in awaiting, message \in ProviderErrors :
       /\ awaiting' = awaiting \ {r}
       /\ uploads' = Unlink(uploads, r.id)
       /\ sent' = Append(sent, CatchResponse(r.id, message))
  /\ UNCHANGED <<isCloudinaryInitialized, received>>
  /\ UNCHANGED browser

ServerInit ==
  /\ \E initialized \in BOOLEAN : Listening(initialized)
  /\ NoForm
  /\ page = "plain"
  /\ seed = 0
  /\ localStorage = EmptyStorage
  /\ Unmounted("plain")
  /\ ids = 0
  /\ ops = 0
  /\ writeFailed = 0
  /\ last = NoHandler
  /\ variant \in Variants
  /\ hostname = HostLocalhost
  /\ apiEnv = <<>>
  /\ clock = 0
  /\ op = "none"
  /\ pc = "idle"
  /\ file = NoFile
  /\ timer = 0
  /\ health = NoServer
  /\ srv = NoServer
  /\ probed = "none"
  /\ caught = NoError
  /\ thrown = <<>>
  /\ result = NoResult
  /\ gets = 0
  /\ posts = 0
  /\ mocks = 0

ServerNext ==
  \/ GetHealth
  \/ PostUploadMedia
  \/ ProviderResolves
  \/ ProviderRejects

ServerSpec == ServerInit /\ [][ServerNext]_vars

(***************************************************************************)
(* The issue form's file upload: handleFileUpload and onFormSubmit of      *)
(* src/src/components/IssueSubmissionForm.tsx, which imports the upload    *)
(* with fallback of src/src/lib/googleDriveUpload.ts.  The form is taken   *)
(* with the onSubmit its parent gives it, which shows the issue list.      *)
(***************************************************************************)
\* limits of the exploration
MaxForms == 2          \* instances of the form mounted
MaxChosen == 2         \* files chosen for upload, in all instances
MaxFormClock == 400    \* the user waits up to this time
FormWaitMs == 400      \* a pause of the user while an upload is in flight

\* setTimeout(() => {...}, 500) of handleFileUpload
AddDelayMs == 500

\* the FileList of one change event of the file input
FileLists ==
  {<<CHOOSE f \in Files : f.name = "a.png">>,
   <<CHOOSE f \in Files : f.name = "tool.exe",
     CHOOSE f \in Files : f.name = "empty.txt">>}

NamesOf(list) == {list[k].name : k \in DOMAIN list}

\* times at which the form's pending timers are due
FormDues == {t.due : t \in addTimers} \cup {p.due : p \in pressed}
IsNextFormDue(d) == \A e \in FormDues : d <= e

\* what the form's handlers leave alone
outside == <<config, pageVars, serverVars>>

\* await uploadMediaFileWithFallback(file), up to the first await of the
\* call (the googleDrive copy)
CallFallback(f) ==
  /\ pc = "idle"
  /\ op' = "fallback"
  /\ file' = f
  /\ IF IsDemoMode
     THEN StartProbe(ProbeTimeoutMs)
     ELSE StartPost("none") /\ UNCHANGED <<health, gets, caught, thrown>>

\* the call has settled and its caller has taken the outcome
CallEnds ==
  /\ pc = "done"
  /\ pc' = "idle"
  /\ op' = "none"
  /\ file' = NoFile
  /\ timer' = 0
  /\ health' = NoServer
  /\ srv' = NoServer
  /\ probed' = "none"
  /\ caught' = NoError
  /\ thrown' = <<>>
  /\ result' = NoResult
  /\ gets' = 0
  /\ posts' = 0
  /\ mocks' = 0

\* setCurrentView("submit"): a new instance of the form is mounted
OpenForm ==
  /\ ~formOpen
  /\ formNo < MaxForms
  /\ formOpen' = TRUE
  /\ formNo' = formNo + 1
  /\ mediaFiles' = <<>>
  /\ chosen' = {}
  /\ UNCHANGED <<picked, uploading, addTimers, pressed, onSubmitCalls,
                 alerts>>
  /\ UNCHANGED <<outside, clock, uploadVars>>

\* handleFileUpload(files) up to the await of its first iteration
HandleFileUpload ==
  /\ formOpen
  /\ uploading = NoUpload
  /\ \E files \in FileLists :
       /\ NamesOf(files) \cap {c.name : c \in chosen} = {}
       /\ picked + Len(files) <= MaxChosen
       /\ picked' = picked + Len(files)
       /\ chosen' =
            chosen \cup {[name |-> n, media |-> NoMedia] :
                           n \in NamesOf(files)}
       /\ uploading' = [form |-> formNo, files |-> files]
       /\ CallFallback(Head(files))
  /\ UNCHANGED <<formOpen, formNo, mediaFiles, addTimers, pressed,
                 onSubmitCalls, alerts>>
  /\ UNCHANGED <<outside, clock>>

\* the awaited upload has settled: the try block goes on and arms the
\* timer that will add the file, or the catch block shows the alert
UploadSettles ==
  /\ uploading # NoUpload
  /\ CallEnds
  /\ IF result.kind = "error"
     THEN /\ alerts' = alerts + 1
          /\ UNCHANGED <<addTimers, chosen>>
     ELSE /\ addTimers' =
               addTimers \cup
                 {[form |-> uploading.form, media |-> result.media,
                   due |-> clock + AddDelayMs]}
          /\ chosen' =
               IF formOpen /\ uploading.form = formNo
               THEN {IF c.name = file.name
                     THEN [c EXCEPT !.media = result.media]
                     ELSE c : c \in chosen}
               ELSE chosen
          /\ UNCHANGED alerts
  /\ uploading' =
       IF Len(uploading.files) > 1
       THEN [uploading EXCEPT !.files = Tail(@)]
       ELSE NoUpload
  /\ UNCHANGED <<formOpen, formNo, mediaFiles, picked, pressed,
                 onSubmitCalls>>
  /\ UNCHANGED <<outside, clock>>

\* the next iteration of the loop of handleFileUpload, up to its await
NextFile ==
  /\ uploading # NoUpload
  /\ CallFallback(Head(uploading.files))
  /\ UNCHANGED <<formVars, outside, clock>>

\* the timer's callback: setMediaFiles(prev => [...prev, uploadedFile]),
\* without effect on an instance that is no longer mounted
AddMediaFile ==
  /\ \E t \in addTimers :
       /\ IsNextFormDue(t.due)
       /\ clock' = Later(clock, t.due)
       /\ addTimers' = addTimers \ {t}
       /\ mediaFiles' =
            IF formOpen /\ t.form = formNo
            THEN Append(mediaFiles, t.media)
            ELSE mediaFiles
  /\ UNCHANGED <<formOpen, formNo, chosen, picked, uploading, pressed,
                 onSubmitCalls, alerts>>
  /\ UNCHANGED <<outside, uploadVars>>

\* onFormSubmit(data) up to its delay: the issue is built with the
\* mediaFiles of this render
PressSubmit ==
  /\ formOpen
  /\ \A p \in pressed : p.form # formNo
  /\ pressed' =
       pressed \cup
         {[form |-> formNo,
           issue |->
             [FormIssue([tab |-> "technical", deadline |-> FALSE,
                         files |-> 0],
                        generateId(clock, formNo), 0, clock)
                EXCEPT !.mediaFiles = mediaFiles],
           chosen |-> chosen,
           due |-> clock + SubmitDelayMs]}
  /\ UNCHANGED <<formOpen, formNo, mediaFiles, chosen, picked, uploading,
                 addTimers, onSubmitCalls, alerts>>
  /\ UNCHANGED <<outside, clock, uploadVars>>

\* the delay is over: onSubmit(issue), reset(), setMediaFiles([]); the
\* parent's handleSubmitIssue shows the issue list, which unmounts the form
FormSubmit ==
  /\ \E p \in pressed :
       /\ IsNextFormDue(p.due)
       /\ clock' = Later(clock, p.due)
       /\ pressed' = pressed \ {p}
       /\ onSubmitCalls' =
            Append(onSubmitCalls,
                   [form |-> p.form, issue |-> p.issue, chosen |-> p.chosen])
  /\ formOpen' = FALSE
  /\ mediaFiles' = <<>>
  /\ chosen' = {}
  /\ UNCHANGED <<formNo, picked, uploading, addTimers, alerts>>
  /\ UNCHANGED <<outside, uploadVars>>

\* the user waits while an upload is in flight, not beyond the next timer
FormWait ==
  /\ pc # "idle"
  /\ clock + FormWaitMs <= MaxFormClock
  /\ IsNextFormDue(clock + FormWaitMs)
  /\ clock' = clock + FormWaitMs
  /\ UNCHANGED <<outside, uploadVars, formVars>>

FormInit ==
  /\ Listening(FALSE)
  /\ NoForm
  /\ page = "plain"
  /\ seed = 0
  /\ localStorage = EmptyStorage
  /\ Unmounted("plain")
  /\ ids = 0
  /\ ops = 0
  /\ writeFailed = 0
  /\ last = NoHandler
  /\ variant = "googleDrive"
  /\ hostname \in {HostLocalhost, HostRemote}
  /\ apiEnv = <<>>
  /\ clock = 0
  /\ op = "none"
  /\ pc = "idle"
  /\ file = NoFile
  /\ timer = 0
  /\ health = NoServer
  /\ srv = NoServer
  /\ probed = "none"
  /\ caught = NoError
  /\ thrown = <<>>
  /\ result = NoResult
  /\ gets = 0
  /\ posts = 0
  /\ mocks = 0

FormNext ==
  \/ OpenForm
  \/ HandleFileUpload
  \/ HealthResponds
  \/ HealthNetworkError
  \/ HealthTimeout
  \/ PostResponds
  \/ PostNetworkError
  \/ PostTimeout
  \/ ErrBodyRead
  \/ OkBodyRead
  \/ MockResolves
  \/ UploadSettles
  \/ NextFile
  \/ AddMediaFile
  \/ PressSubmit
  \/ FormSubmit
  \/ FormWait

FormSpec == FormInit /\ [][FormNext]_vars

(***************************************************************************)
(* Claims about the mock threads, the upload client's requests, the order  *)
(* and the dates of the issues, and the automatic replies                  *)
(***************************************************************************)
\* the two support users of the mock threads
SupportUsers == {mockUsers[2], mockUsers[3]}

\* 3 to 5 messages, one system message first, then 2 to 4 others whose
\* senders alternate between the two support users
ThreadShape(t) ==
  /\ Len(t) \in 3..5
  /\ t[1].isSystem /\ t[1].sender = "System"
  /\ \A i \in 2..Len(t) : ~t[i].isSystem /\ t[i].sender \in SupportUsers
  /\ \A i \in 2..(Len(t) - 1) : t[i].sender # t[i + 1].sender

\* timestamps strictly increasing from the first message to the last
ThreadAscending(t) ==
  \A i \in 1..(Len(t) - 1) : t[i].timestamp.date < t[i + 1].timestamp.date

\* the initialisation effect has generated the threads
Seeded == ~mounted /\ mounted' /\ last'.name = "seed"

\* C22: every thread the mock chat generator makes has 3 to 5 messages,
\* begins with exactly one system message, continues with 2 to 4 messages
\* of alternating support users, and has strictly increasing timestamps.
C22_MockThreads ==
  [][Seeded =>
       \A id \in DOMAIN chatMessages' :
         /\ ThreadShape(chatMessages'[id])
         /\ ThreadAscending(chatMessages'[id])]_vars

\* the part of C22 about counts and senders alone
C22_MockThreadShape ==
  [][Seeded =>
       /\ \A id \in DOMAIN chatMessages' : ThreadShape(chatMessages'[id])
       /\ {Len(chatMessages'[id]) : id \in DOMAIN chatMessages'} = 3..5]_vars

\* C23: no automatic retry.  One call of checkServerHealth issues at most
\* one GET /health and nothing else, one call of the strict upload at most
\* one POST /upload-media and nothing else, one call of the upload with
\* fallback at most one POST /upload-media and at most one invocation of
\* the mock generator; once the mock generator was invoked no POST is in
\* progress, so that a failed upload is never attempted a second time.
C23_NoRetry ==
  /\ gets <= 1 /\ posts <= 1 /\ mocks <= 1
  /\ op = "health" => posts = 0 /\ mocks = 0
  /\ op = "upload" => gets = 0 /\ mocks = 0
  /\ pc \in {"post", "errBody", "okBody"} => mocks = 0
  /\ mocks = 1 /\ posts = 1 /\ pc = "done" => caught # NoError

\* an upload with fallback whose POST failed with an HTTP error has gone on
\* to the mock generator and settled
C23_Witness ==
  /\ op = "fallback" /\ pc = "done"
  /\ posts = 1 /\ mocks = 1
  /\ caught.cause = "http"
  /\ result.kind = "media"

\* the issue was not updated before it was submitted
UpdatedAfterSubmitted(issue) == issue.updatedAt.date >= issue.submittedAt.date

\* C28: every issue in every reachable state has updatedAt not earlier
\* than submittedAt.
C28_UpdatedNotBeforeSubmitted ==
  \A k \in DOMAIN issues : UpdatedAfterSubmitted(issues[k])

\* the parts of C28 about submissions and status changes: the issue such a
\* handler has added or changed is not updated before it was submitted
C28_HandlersKeepDates ==
  [][/\ mounted /\ mounted'
     /\ last'.name \in {"submitIssue", "changeStatus"}
     /\ last' # last \/ issues' # issues
     /\ last'.issueId \in IdsOf(issues')
     => UpdatedAfterSubmitted(IssueOf(issues', last'.issueId))]_vars

\* C27: in every reachable state the in-memory issue list is ordered
\* newest submission first (non-increasing submittedAt).
C27_NewestFirst == IsSortedDescBy(issues, "submittedAt")

\* the same for the copy of the page without the dashboard
C27_NewestFirstPlain ==
  page = "plain" => IsSortedDescBy(issues, "submittedAt")

\* positions of the automatic replies and of the user's messages among the
\* first n messages of thread t
RepliesIn(t, n) == {k \in 1..n : IsAutoReply(t[k])}
UserMessagesIn(t, n) ==
  {k \in 1..n : t[k].sender = currentUser /\ ~t[k].isSystem}

\* every automatic reply of the thread carries the thread's issue id, and
\* up to every position of the thread there are at most as many automatic
\* replies as messages of the user: each reply has a message of the user of
\* its own before it
RepliesFollowMessages(m) ==
  \A id \in DOMAIN m :
    /\ \A k \in RepliesIn(m[id], Len(m[id])) : m[id][k].issueId = id
    /\ \A n \in 1..Len(m[id]) :
         Cardinality(RepliesIn(m[id], n))
           <= Cardinality(UserMessagesIn(m[id], n))

\* the last pending reply timer of the issue fires
LastReplyFires(id) ==
  /\ \E t \in replyTimers : t.issueId = id
  /\ mounted'
  /\ \A t \in replyTimers' : t.issueId # id

\* C29: in every reachable state each thread has at most as many automatic
\* replies as messages of the user, every automatic reply carries the issue
\* id of the message that triggered it and lies after it in the thread, and
\* when the last reply timer of an issue has fired the thread has as many
\* automatic replies as messages of the user.
C29_RepliesMatch ==
  [][/\ RepliesFollowMessages(chatMessages')
     /\ \A id \in DOMAIN chatMessages' :
          LastReplyFires(id) =>
            Cardinality(RepliesIn(chatMessages'[id], Len(chatMessages'[id])))
              = Cardinality(UserMessagesIn(chatMessages'[id],
                                           Len(chatMessages'[id])))]_vars

\* no submission of the form is under way and none has been made
NothingSubmitted ==
  /\ submitting = {}
  /\ \A k \in DOMAIN issues : issues[k].tags # <<"publish">>

\* the same as long as the form was not used
C29_RepliesMatchUndisturbed ==
  [][NothingSubmitted =>
     /\ RepliesFollowMessages(chatMessages')
     /\ \A id \in DOMAIN chatMessages' :
          LastReplyFires(id) =>
            Cardinality(RepliesIn(chatMessages'[id], Len(chatMessages'[id])))
              = Cardinality(UserMessagesIn(chatMessages'[id],
                                           Len(chatMessages'[id])))]_vars

(***************************************************************************)
(* Claims about the backend                                                *)
(***************************************************************************)
\* the responses sent to requests of the given kind
SentTo(kind) == {k \in DOMAIN sent : sent[k].kind = kind}

\* C24: GET /health answers HTTP 200 with status "OK" whether or not the
\* storage provider was initialised, which it reports in the boolean field
\* alone; a POST /upload-media that carries an acceptable file is answered
\* with a 500 when the provider is not initialised, so that a successful
\* health check does not imply a successful upload.
C24_HealthAlwaysOk ==
  /\ \A k \in SentTo("health") :
       /\ sent[k].status = 200
       /\ ResponseOk(sent[k].status)
       /\ sent[k].health.text = "OK"
       /\ sent[k].health.cloudinaryInitialized = isCloudinaryInitialized
  /\ \A k \in SentTo("upload") :
       sent[k].stored /\ ~isCloudinaryInitialized =>
         /\ sent[k].status = 500
         /\ ~SuccessOf(sent[k].data)

\* a health check answered 200 "OK" by a backend without provider, followed
\* by an upload answered 500
C24_Witness ==
  /\ ~isCloudinaryInitialized
  /\ \E h \in SentTo("health"), u \in SentTo("upload") :
       /\ h < u
       /\ ResponseOk(sent[h].status)
       /\ ~sent[h].health.cloudinaryInitialized
       /\ sent[u].stored
       /\ sent[u].status = 500

\* C26: for every POST /upload-media request for which the multipart layer
\* stored a temporary file, that file has been deleted by the time the
\* response is sent.
C26_TempFileDeleted ==
  \A k \in SentTo("upload") : sent[k].stored => sent[k].id \notin uploads

\* the same for the requests that reached the provider
C26_TempFileDeletedAfterProvider ==
  \A k \in SentTo("upload") :
    sent[k].stored /\ sent[k].data.error # SrvNotConfigured
      => sent[k].id \notin uploads

\* what the strict upload of the client throws for an error response: the
\* message it reads from the body and normalises
ThrownFor(r) ==
  NormalizeError([cause |-> "http", name |-> "Error",
                  message |-> HttpErrorMessage(r.data, r.status)])

\* the failure responses of the backend to uploads
FailuresSent == {k \in SentTo("upload") : ~ResponseOk(sent[k].status)}

\* C30: every backend response that reports the provider as not configured
\* or misconfigured is classified by the strict upload as
\* ServiceUnavailable, every quota response (429) as QuotaExceeded, and no
\* backend failure response as Timeout or Unreachable.
C30_ErrorMapping ==
  \A k \in FailuresSent :
    /\ sent[k].data.error \in {SrvNotConfigured, SrvConfigError}
         => CategoryOf(ThrownFor(sent[k])) = "ServiceUnavailable"
    /\ sent[k].status = 429
         => CategoryOf(ThrownFor(sent[k])) = "QuotaExceeded"
    /\ CategoryOf(ThrownFor(sent[k])) \notin {"Timeout", "Unreachable"}

\* the same without the response of the backend whose provider was not
\* initialised
C30_ErrorMappingInitialized ==
  \A k \in FailuresSent :
    /\ sent[k].data.error = SrvConfigError
         => CategoryOf(ThrownFor(sent[k])) = "ServiceUnavailable"
    /\ sent[k].status = 429
         => CategoryOf(ThrownFor(sent[k])) = "QuotaExceeded"
    /\ CategoryOf(ThrownFor(sent[k])) \notin {"Timeout", "Unreachable"}
    /\ sent[k].data.error = SrvNotConfigured
         => ThrownFor(sent[k]) = SrvNotConfigured

(***************************************************************************)
(* Claims about the issue form's uploads                                   *)
(***************************************************************************)
\* C21: no failure of the upload with fallback is ever shown to the user:
\* the upload-failure branch of the form's file handler (clear the
\* progress, show the "Upload failed" alert) is never taken, whatever the
\* health check and the upload do.
C21_NoUploadAlert ==
  /\ alerts = 0
  /\ uploading # NoUpload /\ pc = "done" => result.kind = "media"

\* the form's upload was refused by the server with an HTTP error, the mock
\* generator has made the file, and no alert was shown
C21_Witness ==
  /\ uploading # NoUpload
  /\ pc = "done"
  /\ caught.cause = "http"
  /\ mocks = 1
  /\ result.kind = "media"
  /\ alerts = 0

\* the attachments of the issue handed to onSubmit by call k, and what the
\* uploads of the files chosen in its form before submit was pressed have
\* returned (NoMedia for an upload that has not returned)
AttachedTo(k) ==
  {onSubmitCalls[k].issue.mediaFiles[i] :
     i \in DOMAIN onSubmitCalls[k].issue.mediaFiles}
ChosenFor(k) == {c.media : c \in onSubmitCalls[k].chosen}

\* C25: every file the user chose for upload before pressing submit is in
\* the attachment list of the submitted issue, and in no other issue's
\* list.
C25_AttachmentsComplete ==
  \A k \in DOMAIN onSubmitCalls :
    /\ ChosenFor(k) \subseteq AttachedTo(k)
    /\ AttachedTo(k) \subseteq ChosenFor(k)

\* the second part alone: an issue is handed to onSubmit with no other
\* files than those chosen in its form
C25_NoForeignAttachment ==
  \A k \in DOMAIN onSubmitCalls : AttachedTo(k) \subseteq ChosenFor(k)

\* the first part for the files that were in the form's list when submit
\* was pressed: the issue is built with exactly these
C25_ListedFilesAttached ==
  [][\A p \in pressed' \ pressed :
       p.issue.mediaFiles = mediaFiles]_vars
=============================================================================
